---- MODULE Spec2Model ----
(***************************************************************************)
(* A model of the journal module: entries with their version history,      *)
(* notebooks, tags, the HTTP export / comparison endpoints and the         *)
(* version-sequence allocation under concurrent edits.                     *)
(*                                                                         *)
(* Text is modelled as a sequence of one-character strings; an HTML entity *)
(* reference ("&lt;", "&amp;", "&nbsp;") is one element of the sequence,   *)
(* which html.unescape turns into the character it names.                  *)
(***************************************************************************)
EXTENDS Integers, Sequences, FiniteSets, TLC

VARIABLES entries, versions, notebooks, tags, uid, ok, response, files,
          nwrites, pc, txn, today, result

vars == <<entries, versions, notebooks, tags, uid, ok, response, files,
          nwrites, pc, txn, today, result>>

(***************************************************************************)
(* Bounds of the model.                                                    *)
(***************************************************************************)
\* the version table holds at most MaxVersions rows: an operation that
\* could need more is not taken
MaxVersions == 3
\* nwrites, the number of content-modifying writes of an entry, is capped
MaxWrites == 3
\* the days are numbered 0..MaxDay; the clock stops at MaxDay
MaxDay == 9
\* the contents the text normalizer is run on have at most MaxText characters
MaxText == 3

EntryIds == {1, 2}
Dates == 0..MaxDay
MoodEntryIds == {1, 2, 3}
TrendEntryIds == {1, 2, 3, 4}
NotebookIds == {1, 2}
TagIds == {1, 2}
Users == {"u1", "u2"}
Workers == {"w1", "w2"}

\* the contents a, <p>a b and the empty content
ContentA == <<"a">>
ContentAB == <<"<", "p", ">", "a", " ", "b">>
ContentEmpty == <<>>
Contents == {ContentEmpty, ContentA, ContentAB}
FilledContents == {ContentA, ContentAB}
\* the contents a<b>, a<p>b and a<p>c, of the texts a, a\nb and a\nc
ContentATag == <<"a", "<", "b", ">">>
ContentAnB == <<"a", "<", "p", ">", "b">>
ContentAnC == <<"a", "<", "p", ">", "c">>
DiffContents == {ContentATag, ContentAnB, ContentAnC}

\* the characters of the contents the text normalizer is run on, and
\* these contents: every text of at most MaxText of the characters
TextAlphabet == {"a", " ", "<", ">", "p", ".", "&lt;", "&gt;", "&nbsp;"}
TextContents == UNION {[1..n -> TextAlphabet] : n \in 0..MaxText}

(***************************************************************************)
(* Text Normalizer: JournalEntry._compute_word_count.                      *)
(***************************************************************************)
NBSP == "~nbsp~"

\* re.IGNORECASE on the letters the model's texts use
Lower(ch) ==
    CASE ch = "P" -> "p"
      [] ch = "B" -> "b"
      [] ch = "A" -> "a"
      [] OTHER -> ch

\* \s of the re module
IsSpace(ch) == ch \in {" ", "\n", "\t", NBSP}

\* string.punctuation (without the quote, backslash and backquote
\* characters, which no text of the model contains)
string_punctuation ==
    {"!", "#", "$", "%", "&", "'", "(", ")", "*", "+", ",", "-", ".",
     "/", ":", ";", "<", "=", ">", "?", "@", "[", "]", "^", "_",
     "{", "|", "}", "~"}

block_elements ==
    << <<"p">>, <<"d", "i", "v">>, <<"b", "r">>, <<"l", "i">>,
       <<"h", "1">>, <<"h", "2">>, <<"h", "3">>, <<"h", "4">>,
       <<"h", "5">>, <<"h", "6">> >>

\* pat occurs in s at position i, ignoring case
MatchesAt(s, i, pat) ==
    /\ i + Len(pat) - 1 <= Len(s)
    /\ \A k \in 1..Len(pat) : Lower(s[i + k - 1]) = pat[k]

\* the position of the first closing angle bracket of s at or after i,
\* 0 when there is none
FirstGt(s, i) ==
    LET hits == {j \in i..Len(s) : s[j] = ">"}
    IN  IF hits = {} THEN 0 ELSE CHOOSE j \in hits : \A k \in hits : j <= k

\* re.sub(fr'</{element}>', ' ', s, flags=re.IGNORECASE), from position i on
RECURSIVE SubClosing(_, _, _)
SubClosing(element, s, i) ==
    LET pat == <<"<", "/">> \o element \o <<">">>
    IN  IF i > Len(s) THEN <<>>
        ELSE IF MatchesAt(s, i, pat)
             THEN <<" ">> \o SubClosing(element, s, i + Len(pat))
             ELSE <<s[i]>> \o SubClosing(element, s, i + 1)

\* re.sub(fr'<{element}[^>]*/?>', ' ', s, flags=re.IGNORECASE), from i on
RECURSIVE SubOpening(_, _, _)
SubOpening(element, s, i) ==
    LET pat == <<"<">> \o element
        j == FirstGt(s, i + Len(pat))
    IN  IF i > Len(s) THEN <<>>
        ELSE IF MatchesAt(s, i, pat) /\ j # 0
             THEN <<" ">> \o SubOpening(element, s, j + 1)
             ELSE <<s[i]>> \o SubOpening(element, s, i + 1)

\* the loop over block_elements, from the k-th element on
RECURSIVE ReplaceBlocks(_, _)
ReplaceBlocks(s, k) ==
    IF k > Len(block_elements) THEN s
    ELSE ReplaceBlocks(
           SubOpening(block_elements[k],
                      SubClosing(block_elements[k], s, 1), 1),
           k + 1)

\* re.sub(r'<[^>]+>', repl, s), from position i on
RECURSIVE SubTags(_, _, _)
SubTags(repl, s, i) ==
    LET j == FirstGt(s, i + 2)
    IN  IF i > Len(s) THEN <<>>
        ELSE IF s[i] = "<" /\ i + 1 <= Len(s) /\ s[i + 1] # ">" /\ j # 0
             THEN repl \o SubTags(repl, s, j + 1)
             ELSE <<s[i]>> \o SubTags(repl, s, i + 1)

\* html.unescape on the entity references of the model
html_unescape(s) ==
    [k \in 1..Len(s) |->
        CASE s[k] = "&lt;" -> "<"
          [] s[k] = "&gt;" -> ">"
          [] s[k] = "&amp;" -> "&"
          [] s[k] = "&nbsp;" -> NBSP
          [] OTHER -> s[k]]

\* re.sub(r'\s+', ' ', s), from position i on
RECURSIVE CollapseSpace(_, _)
CollapseSpace(s, i) ==
    IF i > Len(s) THEN <<>>
    ELSE IF IsSpace(s[i])
         THEN IF i > 1 /\ IsSpace(s[i - 1])
              THEN CollapseSpace(s, i + 1)
              ELSE <<" ">> \o CollapseSpace(s, i + 1)
         ELSE <<s[i]>> \o CollapseSpace(s, i + 1)

\* str.strip()
RECURSIVE Strip(_)
Strip(s) ==
    IF s = <<>> THEN s
    ELSE IF IsSpace(s[1]) THEN Strip(Tail(s))
    ELSE IF IsSpace(s[Len(s)]) THEN Strip(SubSeq(s, 1, Len(s) - 1))
    ELSE s

\* text.translate(str.maketrans('', '', string.punctuation))
RemovePunctuation(s) == SelectSeq(s, LAMBDA ch : ch \notin string_punctuation)

\* len([word for word in s.split() if word])
CountWords(s) ==
    Cardinality({k \in 1..Len(s) :
                   /\ ~IsSpace(s[k])
                   /\ (k = 1 \/ IsSpace(s[k - 1]))})

\* the plain text left untrimmed
PlainText_NoStrip(content) ==
    CollapseSpace(html_unescape(SubTags(<<>>, ReplaceBlocks(content, 1), 1)), 1)

\* steps 1 to 5 of _compute_word_count: the plain text of a content
PlainText(content) ==
    Strip(CollapseSpace(html_unescape(SubTags(<<>>, ReplaceBlocks(content, 1), 1)), 1))

\* the counts taken on the content as written, markup included
_compute_word_count_Raw(content) ==
    [word_count |-> CountWords(RemovePunctuation(content)),
     char_count |-> Len(content)]

\* the counts _compute_word_count stores for a content
_compute_word_count(content) ==
    IF content # <<>>
    THEN LET text_content == PlainText(content)
         IN  IF text_content # <<>>
             THEN [word_count |-> CountWords(RemovePunctuation(text_content)),
                   char_count |-> Len(text_content)]
             ELSE [word_count |-> 0, char_count |-> 0]
    ELSE [word_count |-> 0, char_count |-> 0]

(***************************************************************************)
(* The stored records.                                                     *)
(*   entries   : entry id -> the fields of a journal.entry row             *)
(*   versions  : the set of journal.entry.version rows                     *)
(*   notebooks : notebook id -> the fields of a journal.notebook row       *)
(*   tags      : tag id -> the fields of a journal.tag row                 *)
(*   uid       : env.user, the user the requests run as                    *)
(*   ok        : whether the last operation returned (FALSE: it raised)    *)
(*   response  : the response to the last HTTP request                     *)
(*   files     : the temporary files the last HTTP request left            *)
(*   nwrites   : per entry, the number of calls of write with content      *)
(*   pc, txn   : per worker, where its request stands and what it holds    *)
(***************************************************************************)
States == {"draft", "published", "archived"}

\* the ids of the stored entries, notebooks, tags
EntrySet == DOMAIN entries
NotebookSet == DOMAIN notebooks
TagSet == DOMAIN tags

\* the id the database gives a new row: the smallest one not in use
NewId(ids, used) == CHOOSE i \in ids \ used : \A k \in ids \ used : i <= k

\* f without the keys in S
Without(f, S) == [k \in (DOMAIN f) \ S |-> f[k]]

\* f with key k bound to v
With(f, k, v) == [x \in (DOMAIN f) \cup {k} |-> IF x = k THEN v ELSE f[x]]

\* record.version_ids: the versions of entry e among vers
version_ids(vers, e) == {v \in vers : v.entry_id = e}

\* notebook.entry_ids, for a set S of notebooks
entry_ids(ents, S) == {e \in DOMAIN ents : ents[e].notebook_id \in S}

\* tag.entry_ids: the entries that carry tag t
tag_entry_ids(ents, t) == {e \in DOMAIN ents : t \in ents[e].tag_ids}

\* the database id of a new version row of entry e: unique among vers
NewVersionId(vers, e) ==
    <<e, NewId(1..(Cardinality(version_ids(vers, e)) + 1),
               {v.id[2] : v \in version_ids(vers, e)})>>

\* a table without the UNIQUE constraint: every row is accepted
unique_version_per_entry_Off(vers, v) == TRUE

\* the UNIQUE(entry_id, version_number) constraint accepts row v among vers
unique_version_per_entry(vers, v) ==
    \A o \in vers : ~(o.entry_id = v.entry_id /\ o.version_number = v.version_number)

\* the database state an operation works on, and whether it raised
DB(ents, vers) == [entries |-> ents, versions |-> vers, ok |-> TRUE]
Raised(ents, vers) == [entries |-> ents, versions |-> vers, ok |-> FALSE]

\* _create_version keeping only the newest snapshot of the entry
_create_version_Overwrites(ents, vers, e, u) ==
    IF ents[e].content # <<>>
    THEN DB([ents EXCEPT ![e].current_version = @ + 1],
            {v \in vers : v.entry_id # e} \cup
            {[id |-> NewVersionId(vers, e),
              entry_id |-> e,
              version_number |-> ents[e].current_version,
              content |-> ents[e].content,
              word_count |-> ents[e].word_count,
              char_count |-> ents[e].char_count,
              created_by |-> u]})
    ELSE DB(ents, vers)

\* _create_version without the increment of current_version
_create_version_NoIncrement(ents, vers, e, u) ==
    IF ents[e].content # <<>>
    THEN LET version_vals ==
                 [id |-> NewVersionId(vers, e),
                  entry_id |-> e,
                  version_number |-> ents[e].current_version,
                  content |-> ents[e].content,
                  word_count |-> ents[e].word_count,
                  char_count |-> ents[e].char_count,
                  created_by |-> u]
         IN  IF unique_version_per_entry(vers, version_vals)
             THEN DB(ents, vers \cup {version_vals})
             ELSE Raised(ents, vers)
    ELSE DB(ents, vers)

\* JournalEntry._create_version for the single record e, called by user u
_create_version(ents, vers, e, u) ==
    IF ents[e].content # <<>>
    THEN LET version_vals ==
                 [id |-> NewVersionId(vers, e),
                  entry_id |-> e,
                  version_number |-> ents[e].current_version,
                  content |-> ents[e].content,
                  word_count |-> ents[e].word_count,
                  char_count |-> ents[e].char_count,
                  created_by |-> u]
         IN  IF unique_version_per_entry(vers, version_vals)
             THEN DB([ents EXCEPT ![e].current_version = @ + 1],
                     vers \cup {version_vals})
             ELSE Raised(ents, vers)
    ELSE DB(ents, vers)

\* models.Model.write: the fields of vals stored on entry e; a content
\* change recomputes the stored counts unless vals sets them itself, and
\* the command (3, t) on tag_ids removes t, (6, 0, T) sets the tags to T
super_write(ents, e, vals) ==
    LET counts == IF "content" \in DOMAIN vals
                  THEN _compute_word_count(vals.content)
                  ELSE [word_count |-> ents[e].word_count,
                        char_count |-> ents[e].char_count]
        field(f) ==
            IF f = "tag_ids" /\ f \in DOMAIN vals
            THEN IF vals[f][1] = 3 THEN ents[e].tag_ids \ {vals[f][2]}
                 ELSE vals[f][3]
            ELSE IF f \in DOMAIN vals THEN vals[f]
            ELSE IF f \in {"word_count", "char_count"} THEN counts[f]
            ELSE ents[e][f]
    IN  [ents EXCEPT ![e] = [f \in DOMAIN ents[e] |-> field(f)]]

\* a constraint that lets every date pass
_check_entry_date_Off(ents, S) == TRUE

\* JournalEntry._check_entry_date on the entries S: no entry_date after
\* fields.Date.today()
_check_entry_date(ents, S) == \A e \in S : ~(ents[e].entry_date > today)

\* write taking the snapshot after the fields of vals are stored
write_SnapshotAfter(ents, vers, e, vals, u) ==
    LET then == super_write(ents, e, vals)
        snap == IF "content" \in DOMAIN vals
                THEN _create_version(then, vers, e, u)
                ELSE DB(then, vers)
    IN  IF snap.ok /\ ("entry_date" \in DOMAIN vals => _check_entry_date(then, {e}))
        THEN DB(snap.entries, snap.versions)
        ELSE Raised(ents, vers)

\* JournalEntry.write on the single record e, called by user u; the
\* constraint on entry_date runs when vals holds the field
write(ents, vers, e, vals, u) ==
    LET snap == IF "content" \in DOMAIN vals
                THEN _create_version(ents, vers, e, u)
                ELSE DB(ents, vers)
        then == super_write(snap.entries, e, vals)
    IN  IF snap.ok /\ ("entry_date" \in DOMAIN vals => _check_entry_date(then, {e}))
        THEN DB(then, snap.versions)
        ELSE Raised(ents, vers)

\* action_restore_version taking the restored version out of the history
action_restore_version_Moves(ents, vers, e, version_id, u) ==
    LET found == {v \in vers : v.id = version_id}
    IN  IF found # {} /\ (CHOOSE v \in found : TRUE).entry_id = e
        THEN LET version == CHOOSE v \in found : TRUE
                 snap == _create_version(ents, vers, e, u)
             IN  IF snap.ok
                 THEN write(snap.entries, snap.versions \ {version}, e,
                            [content |-> version.content,
                             word_count |-> version.word_count,
                             char_count |-> version.char_count], u)
                 ELSE Raised(ents, vers)
        ELSE DB(ents, vers)

\* action_restore_version without the test of the owner of the version
action_restore_version_AnyEntry(ents, vers, e, version_id, u) ==
    LET found == {v \in vers : v.id = version_id}
    IN  IF found # {}
        THEN LET version == CHOOSE v \in found : TRUE
                 snap == _create_version(ents, vers, e, u)
             IN  IF snap.ok
                 THEN write(snap.entries, snap.versions, e,
                            [content |-> version.content,
                             word_count |-> version.word_count,
                             char_count |-> version.char_count], u)
                 ELSE Raised(ents, vers)
        ELSE DB(ents, vers)

\* JournalEntry.action_restore_version on entry e with the id of a version
action_restore_version(ents, vers, e, version_id, u) ==
    LET found == {v \in vers : v.id = version_id}
    IN  IF found # {} /\ (CHOOSE v \in found : TRUE).entry_id = e
        THEN LET version == CHOOSE v \in found : TRUE
                 snap == _create_version(ents, vers, e, u)
             IN  IF snap.ok
                 THEN write(snap.entries, snap.versions, e,
                            [content |-> version.content,
                             word_count |-> version.word_count,
                             char_count |-> version.char_count], u)
                 ELSE Raised(ents, vers)
        ELSE DB(ents, vers)

\* JournalEntry.action_publish on the single record e
action_publish(ents, vers, e, u) ==
    IF ents[e].state = "draft"
    THEN write(ents, vers, e, [state |-> "published"], u)
    ELSE DB(ents, vers)

\* JournalEntry.action_draft on the single record e
action_draft(ents, vers, e, u) ==
    IF ents[e].state \in {"published", "archived"}
    THEN write(ents, vers, e, [state |-> "draft"], u)
    ELSE DB(ents, vers)

\* action_archive without the test of the state
action_archive_Any(ents, vers, e, u) ==
    write(ents, vers, e, [state |-> "archived"], u)

\* JournalEntry.action_archive on the single record e
action_archive(ents, vers, e, u) ==
    IF ents[e].state = "published"
    THEN write(ents, vers, e, [state |-> "archived"], u)
    ELSE DB(ents, vers)

\* JournalEntry.action_toggle_favorite on the single record e
action_toggle_favorite(ents, vers, e, u) ==
    write(ents, vers, e, [is_favorite |-> ~ents[e].is_favorite], u)

\* JournalEntry.create: the row of a new entry
create(content, notebook, tagset, u) ==
    [content |-> content,
     word_count |-> _compute_word_count(content).word_count,
     char_count |-> _compute_word_count(content).char_count,
     notebook_id |-> notebook,
     tag_ids |-> tagset,
     user_id |-> u,
     state |-> "draft",
     is_favorite |-> FALSE,
     current_version |-> 1,
     entry_date |-> today,
     mood |-> "none"]

\* action_duplicate without current_version in the default values
action_duplicate_KeepsCounter(ents, e) ==
    [create(ents[e].content, ents[e].notebook_id, ents[e].tag_ids, ents[e].user_id)
       EXCEPT !.state = ents[e].state,
              !.entry_date = ents[e].entry_date,
              !.mood = ents[e].mood,
              !.is_favorite = FALSE,
              !.current_version = ents[e].current_version]

\* JournalEntry.action_duplicate: the copy of entry e; copy() takes the
\* fields over except the one2many version_ids and the computed counts,
\* and the values of default replace the copied ones
action_duplicate(ents, e) ==
    [create(ents[e].content, ents[e].notebook_id, ents[e].tag_ids, ents[e].user_id)
       EXCEPT !.state = ents[e].state,
              !.entry_date = ents[e].entry_date,
              !.mood = ents[e].mood,
              !.is_favorite = FALSE,
              !.current_version = 1]

\* models.Model.unlink on the entries S: the rows go, and with them the
\* versions whose entry_id is ondelete=cascade
unlink_entries(ents, vers, S) ==
    DB(Without(ents, S), {v \in vers : v.entry_id \notin S})

\* models.Model.unlink on the notebooks S: the rows go, and with them the
\* entries whose notebook_id is ondelete=cascade
super_unlink_notebooks(nbs, ents, vers, S) ==
    LET gone == unlink_entries(ents, vers, entry_ids(ents, S))
    IN  [notebooks |-> Without(nbs, S), entries |-> gone.entries,
         versions |-> gone.versions, ok |-> TRUE]

\* unlink without the test for entries
unlink_NoCheck(nbs, ents, vers, S) == super_unlink_notebooks(nbs, ents, vers, S)

\* JournalNotebook.unlink on the notebooks S
unlink(nbs, ents, vers, S) ==
    IF \E notebook \in S : entry_ids(ents, {notebook}) # {}
    THEN [notebooks |-> nbs, entries |-> ents, versions |-> vers, ok |-> FALSE]
    ELSE super_unlink_notebooks(nbs, ents, vers, S)

\* action_delete that does not delete the entries first
action_delete_NotebookOnly(nbs, ents, vers, S) ==
    LET then == unlink(nbs, ents, vers, S)
    IN  IF then.ok THEN then
        ELSE [notebooks |-> nbs, entries |-> ents, versions |-> vers, ok |-> FALSE]

\* JournalNotebook.action_delete on the notebooks S
action_delete(nbs, ents, vers, S) ==
    LET first == IF entry_ids(ents, S) # {}
                 THEN unlink_entries(ents, vers, entry_ids(ents, S))
                 ELSE DB(ents, vers)
        then == unlink(nbs, first.entries, first.versions, S)
    IN  IF then.ok THEN then
        ELSE [notebooks |-> nbs, entries |-> ents, versions |-> vers, ok |-> FALSE]

\* tag.entry_ids.write({'tag_ids': [(3, tag.id)]}), one record after the other
RECURSIVE detach_tag(_, _, _, _)
detach_tag(db, rest, tag, u) ==
    IF rest = {} \/ ~db.ok THEN db
    ELSE LET e == CHOOSE x \in rest : \A o \in rest : x <= o
         IN  detach_tag(write(db.entries, db.versions, e, [tag_ids |-> <<3, tag>>], u),
                        rest \ {e}, tag, u)

\* the loop of JournalTag.action_archive over the tags S
RECURSIVE detach_tags(_, _, _)
detach_tags(db, S, u) ==
    IF S = {} \/ ~db.ok THEN db
    ELSE LET tag == CHOOSE t \in S : \A o \in S : t <= o
         IN  detach_tags(
               IF tag_entry_ids(db.entries, tag) # {}
               THEN detach_tag(db, tag_entry_ids(db.entries, tag), tag, u)
               ELSE db,
               S \ {tag}, u)

\* action_archive that only clears the active flag
tag_action_archive_NoDetach(tgs, ents, vers, S, u) ==
    [tags |-> [t \in DOMAIN tgs |->
                 IF t \in S THEN [tgs[t] EXCEPT !.active = FALSE] ELSE tgs[t]],
     entries |-> ents, versions |-> vers, ok |-> TRUE]

\* JournalTag.action_archive on the tags S
tag_action_archive(tgs, ents, vers, S, u) ==
    LET done == detach_tags(DB(ents, vers), S, u)
    IN  IF done.ok
        THEN [tags |-> [t \in DOMAIN tgs |->
                          IF t \in S THEN [tgs[t] EXCEPT !.active = FALSE] ELSE tgs[t]],
              entries |-> done.entries, versions |-> done.versions, ok |-> TRUE]
        ELSE [tags |-> tgs, entries |-> ents, versions |-> vers, ok |-> FALSE]

\* JournalTag.action_unarchive on the tags S
tag_action_unarchive(tgs, S) ==
    [t \in DOMAIN tgs |-> IF t \in S THEN [tgs[t] EXCEPT !.active = TRUE] ELSE tgs[t]]

(***************************************************************************)
(* The HTTP endpoints of JournalExportController.  A response records the  *)
(* route, the requesting user, the entry named in the request with its     *)
(* owner, the status, and the entries and versions whose content the body  *)
(* carries.                                                                *)
(***************************************************************************)
NoResponse ==
    [route |-> "none", user |-> "none", entry_id |-> 0, owner |-> "none",
     status |-> "none", entries_shown |-> {}, versions_shown |-> {},
     diff |-> <<>>]

Respond(route, u, ents, entry_id, status, es, vs) ==
    [route |-> route, user |-> u, entry_id |-> entry_id,
     owner |-> IF entry_id \in DOMAIN ents THEN ents[entry_id].user_id ELSE "none",
     status |-> status, entries_shown |-> es, versions_shown |-> vs,
     diff |-> <<>>]

\* what can happen in export_pdf once the entry is found: html_file.write
\* raises, or subprocess.run returns 0, returns another code, raises
\* TimeoutExpired or raises another exception
ExportOutcomes == {"write_error", "zero", "nonzero", "timeout", "oserror"}

\* what os.unlink does in the finally block: it works, or it raises on the
\* html file, or it raises on the pdf file
CleanupOutcomes == {"ok", "html_raises", "pdf_raises"}

\* export_pdf that falls back to the HTML of the entry when the renderer
\* fails
export_pdf_HtmlFallback(ents, u, entry_id, outcome, pdf_written) ==
    IF entry_id \notin DOMAIN ents \/ ents[entry_id].user_id # u
    THEN Respond("pdf", u, ents, entry_id, "not_found", {}, {})
    ELSE IF outcome = "zero" /\ pdf_written
         THEN Respond("pdf", u, ents, entry_id, "pdf", {entry_id}, {})
         ELSE Respond("pdf", u, ents, entry_id, "html", {entry_id}, {})

\* export_pdf; outcome is what happens and pdf_written whether the renderer
\* left an output file
export_pdf(ents, u, entry_id, outcome, pdf_written) ==
    IF entry_id \notin DOMAIN ents \/ ents[entry_id].user_id # u
    THEN Respond("pdf", u, ents, entry_id, "not_found", {}, {})
    ELSE IF outcome = "zero" /\ pdf_written
         THEN Respond("pdf", u, ents, entry_id, "pdf", {entry_id}, {})
         ELSE Respond("pdf", u, ents, entry_id, "error_page", {}, {})

\* the temporary files that exist when export_pdf returns
export_pdf_files(ents, u, entry_id, outcome, pdf_written, cleanup) ==
    IF entry_id \notin DOMAIN ents \/ ents[entry_id].user_id # u
    THEN {}
    ELSE IF outcome = "write_error" THEN {"html"}
    ELSE LET created == {"html"} \cup
                        (IF pdf_written /\ outcome # "oserror" THEN {"pdf"} ELSE {})
         IN  CASE cleanup = "ok" -> {}
               [] cleanup = "html_raises" -> created
               [] cleanup = "pdf_raises" -> created \ {"html"}

\* export_markdown
export_markdown(ents, u, entry_id) ==
    IF entry_id \notin DOMAIN ents \/ ents[entry_id].user_id # u
    THEN Respond("markdown", u, ents, entry_id, "not_found", {}, {})
    ELSE Respond("markdown", u, ents, entry_id, "ok", {entry_id}, {})

\* str.replace(pat, repl) on s, from position i on
RECURSIVE str_replace(_, _, _, _)
str_replace(s, pat, repl, i) ==
    IF i > Len(s) THEN <<>>
    ELSE IF /\ i + Len(pat) - 1 <= Len(s)
            /\ \A k \in 1..Len(pat) : s[i + k - 1] = pat[k]
         THEN repl \o str_replace(s, pat, repl, i + Len(pat))
         ELSE <<s[i]>> \o str_replace(s, pat, repl, i + 1)

\* html_to_text of the comparison: <p> and </p> to newlines, the other
\* tags out, the entity references to their characters
html_to_text(html) ==
    IF html = <<>> THEN <<>>
    ELSE html_unescape(
           SubTags(<<>>,
                   str_replace(str_replace(html, <<"<", "p", ">">>, <<"\n">>, 1),
                               <<"<", "/", "p", ">">>, <<"\n">>, 1),
                   1))

\* str.splitlines(keepends=True), from position i on, line the line so far
RECURSIVE splitlines(_, _, _)
splitlines(s, i, line) ==
    IF i > Len(s) THEN (IF line = <<>> THEN <<>> ELSE <<line>>)
    ELSE IF s[i] = "\n" THEN <<Append(line, "\n")>> \o splitlines(s, i + 1, <<>>)
    ELSE splitlines(s, i + 1, Append(line, s[i]))

\* SequenceMatcher.find_longest_match on a[alo..ahi] and b[blo..bhi]: the
\* blocks <<i, j, k>> with a[i..i+k-1] = b[j..j+k-1], of which it takes the
\* longest, then the one earliest in a, then the one earliest in b
matches(a, alo, ahi, b, blo, bhi) ==
    {m \in (alo..ahi) \X (blo..bhi) \X (1..Len(a)) :
       /\ m[1] + m[3] - 1 <= ahi
       /\ m[2] + m[3] - 1 <= bhi
       /\ \A t \in 0..(m[3] - 1) : a[m[1] + t] = b[m[2] + t]}

find_longest_match(a, alo, ahi, b, blo, bhi) ==
    LET all == matches(a, alo, ahi, b, blo, bhi)
        better(m, n) == \/ m[3] > n[3]
                        \/ m[3] = n[3] /\ m[1] < n[1]
                        \/ m[3] = n[3] /\ m[1] = n[1] /\ m[2] <= n[2]
    IN  CHOOSE m \in all : \A n \in all : better(m, n)

\* SequenceMatcher.get_matching_blocks: the longest match, and the blocks
\* to its left and to its right
RECURSIVE get_matching_blocks(_, _, _, _, _, _)
get_matching_blocks(a, alo, ahi, b, blo, bhi) ==
    IF matches(a, alo, ahi, b, blo, bhi) = {} THEN <<>>
    ELSE LET m == find_longest_match(a, alo, ahi, b, blo, bhi)
         IN  get_matching_blocks(a, alo, m[1] - 1, b, blo, m[2] - 1)
             \o <<m>> \o
             get_matching_blocks(a, m[1] + m[3], ahi, b, m[2] + m[3], bhi)

\* the lines of s from i to j, each after the mark
marked(mark, s, i, j) == [k \in 1..(j - i + 1) |-> <<mark>> \o s[i + k - 1]]

\* the lines of the hunk from the opcodes: before each matching block the
\* lines of a alone with - and the lines of b alone with +, then the
\* lines of the block with a space
RECURSIVE hunk_lines(_, _, _, _, _)
hunk_lines(a, b, blocks, i, j) ==
    IF blocks = <<>>
    THEN marked("-", a, i, Len(a)) \o marked("+", b, j, Len(b))
    ELSE LET m == Head(blocks)
         IN  marked("-", a, i, m[1] - 1) \o marked("+", b, j, m[2] - 1)
             \o marked(" ", a, m[1], m[1] + m[3] - 1)
             \o hunk_lines(a, b, Tail(blocks), m[1] + m[3], m[2] + m[3])

\* difflib.unified_diff(a, b, fromfile, tofile, n=3) for texts of at most
\* three lines, which make one hunk with every line in it: nothing when
\* the texts are equal, else the two file lines, the hunk line and the
\* lines of the hunk
unified_diff(a, b) ==
    IF a = b THEN <<>>
    ELSE << <<"-", "-", "-", " ", "fromfile", "\n">>,
            <<"+", "+", "+", " ", "tofile", "\n">>,
            <<"@", "@", " ", "ranges", " ", "@", "@", "\n">> >>
         \o hunk_lines(a, b, get_matching_blocks(a, 1, Len(a), b, 1, Len(b)), 1, 1)

\* html.escape
html_escape(s) ==
    [k \in 1..Len(s) |->
        CASE s[k] = "<" -> "&lt;"
          [] s[k] = ">" -> "&gt;"
          [] s[k] = "&" -> "&amp;"
          [] OTHER -> s[k]]

\* the block of one line of the diff
diff_block(line) ==
    IF Head(line) = "+" THEN [class |-> "diff-added", text |-> html_escape(Tail(line))]
    ELSE IF Head(line) = "-"
         THEN [class |-> "diff-removed", text |-> html_escape(Tail(line))]
    ELSE IF Head(line) = "@" THEN [class |-> "diff-header", text |-> html_escape(line)]
    ELSE [class |-> "diff-context", text |-> html_escape(line)]

\* a renderer that has nothing to show for equal texts
html_diff_with_highlighting_Empty(old_html, new_html) ==
    LET diff == unified_diff(splitlines(html_to_text(old_html), 1, <<>>),
                             splitlines(html_to_text(new_html), 1, <<>>))
    IN  [k \in 1..Len(diff) |-> diff_block(diff[k])]

\* html_diff_with_highlighting of the two comparisons
html_diff_with_highlighting(old_html, new_html) ==
    LET diff == unified_diff(splitlines(html_to_text(old_html), 1, <<>>),
                             splitlines(html_to_text(new_html), 1, <<>>))
    IN  IF diff = <<>>
        THEN << [class |-> "no-changes", text |-> <<"No changes detected">>] >>
        ELSE [k \in 1..Len(diff) |-> diff_block(diff[k])]

\* the content of the version with the id
version_content(vers, id) == (CHOOSE v \in vers : v.id = id).content

\* compare_versions
compare_versions(ents, vers, u, entry_id, version1_id, version2_id) ==
    IF ~(/\ entry_id \in DOMAIN ents
         /\ \E v \in vers : v.id = version1_id
         /\ \E v \in vers : v.id = version2_id)
    THEN Respond("compare", u, ents, entry_id, "not_found", {}, {})
    ELSE [Respond("compare", u, ents, entry_id, "ok", {}, {version1_id, version2_id})
            EXCEPT !.diff = html_diff_with_highlighting(
                                version_content(vers, version1_id),
                                version_content(vers, version2_id))]

\* compare_with_current
compare_with_current(ents, vers, u, entry_id, version_id) ==
    IF ~(/\ entry_id \in DOMAIN ents
         /\ \E v \in vers : v.id = version_id)
    THEN Respond("compare_current", u, ents, entry_id, "not_found", {}, {})
    ELSE [Respond("compare_current", u, ents, entry_id, "ok", {entry_id}, {version_id})
            EXCEPT !.diff = html_diff_with_highlighting(
                                version_content(vers, version_id),
                                ents[entry_id].content)]


(***************************************************************************)
(* Mood analytics: JournalMoodAnalysis.  A day is a number; day 0 is       *)
(* Monday 28 December, so that day NewYear is the first of January.  A     *)
(* dict is the sequence of its <<key, value>> pairs in insertion order,    *)
(* and a rounded number is held in hundredths.                             *)
(***************************************************************************)
Moods == {"happy", "sad", "tired"}
Periods == {"all", "week", "month", "year", "day"}
NewYear == 4

\* date.replace(day=1) and date.replace(month=1, day=1)
month_start(d) == IF d >= NewYear THEN NewYear ELSE NewYear - 31
year_start(d) == IF d >= NewYear THEN NewYear ELSE NewYear - 365
\* the first day of the month after that of d
next_month_start(d) == IF d >= NewYear THEN NewYear + 31 ELSE NewYear
\* date.weekday(), Monday 0
weekday(d) == d % 7

\* round(num / den, 2), in hundredths, for num >= 0: to the nearest, a tie
\* to the even one
RoundPositive(num, den) ==
    LET q == (num * 100) \div den
        r == (num * 100) % den
    IN  IF 2 * r < den THEN q
        ELSE IF 2 * r > den THEN q + 1
        ELSE IF q % 2 = 0 THEN q ELSE q + 1

\* round(num / den, 2), in hundredths
Round2(num, den) ==
    IF num >= 0 THEN RoundPositive(num, den) ELSE 0 - RoundPositive(0 - num, den)

\* the sequences that hold every element of S once
Perms(S) ==
    {s \in [1..Cardinality(S) -> S] : \A i, j \in DOMAIN s : s[i] = s[j] => i = j}

\* search with the order of the model, entry_date desc, write_date desc:
\* write_date is not stored, entries of one date come in any order
search(ents, S) ==
    {s \in Perms(S) :
       \A i, j \in DOMAIN s : i < j => ents[s[i]].entry_date >= ents[s[j]].entry_date}

\* search with order='entry_date'
search_by_date(ents, S) ==
    {s \in Perms(S) :
       \A i, j \in DOMAIN s : i < j => ents[s[i]].entry_date <= ents[s[j]].entry_date}

\* d[key] = d.get(key, 0) + 1 for each key of keys in turn
RECURSIVE dict_count(_, _)
dict_count(keys, d) ==
    IF keys = <<>> THEN d
    ELSE LET k == Head(keys)
         IN  dict_count(Tail(keys),
                 IF \E i \in DOMAIN d : d[i][1] = k
                 THEN [i \in DOMAIN d |->
                         IF d[i][1] = k THEN <<k, d[i][2] + 1>> ELSE d[i]]
                 ELSE Append(d, <<k, 1>>))

\* max(d, key=d.get) from position i on, best the position of the maximum
\* so far: a later key replaces it only with a greater value
RECURSIVE dict_max(_, _, _)
dict_max(d, i, best) ==
    IF i > Len(d) THEN d[best][1]
    ELSE dict_max(d, i + 1, IF d[i][2] > d[best][2] THEN i ELSE best)

dict_get(d, k) == IF \E i \in DOMAIN d : d[i][1] = k
                  THEN d[CHOOSE i \in DOMAIN d : d[i][1] = k][2]
                  ELSE 0

dict_keys(d) == {d[i][1] : i \in DOMAIN d}

\* the moods of the entries of seq, in order
moods_of(ents, seq) == [i \in DOMAIN seq |-> ents[seq[i]].mood]

\* a domain without the dates of the period
statistics_domain_NoPeriod(ents, user_id, period) ==
    {e \in DOMAIN ents : ents[e].user_id = user_id}

\* the domain of get_mood_statistics
statistics_domain(ents, user_id, period) ==
    {e \in DOMAIN ents :
       /\ ents[e].user_id = user_id
       /\ period = "week" => ents[e].entry_date >= today - 7
       /\ period = "month" => ents[e].entry_date >= month_start(today)
       /\ period = "year" => ents[e].entry_date >= year_start(today)}

\* the fraction of each mood, not multiplied by 100
mood_percentages_Fraction(counts, total) ==
    [m \in dict_keys(counts) |-> Round2(dict_get(counts, m), total)]

\* get_mood_statistics: the percentage of each mood
mood_percentages(counts, total) ==
    [m \in dict_keys(counts) |-> Round2(dict_get(counts, m) * 100, total)]

\* max that keeps the last of the moods with the greatest count
most_common_Last(d) ==
    LET big == {i \in DOMAIN d : \A j \in DOMAIN d : d[j][2] <= d[i][2]}
    IN  d[CHOOSE i \in big : \A j \in big : j <= i][1]

\* get_mood_statistics: max(mood_counts, key=mood_counts.get)
most_common(d) == dict_max(d, 1, 1)

\* the trends with 0 for every mood the previous window does not hold
_calculate_mood_trends_ZeroPrior(ents, user_id) ==
    LET recent_start == today - 7
        previous_start == recent_start - 7
        mine == {e \in DOMAIN ents : ents[e].user_id = user_id /\ ents[e].mood # "none"}
        recent_entries == {e \in mine : /\ ents[e].entry_date >= recent_start
                                        /\ ents[e].entry_date <= today}
        previous_entries == {e \in mine : /\ ents[e].entry_date >= previous_start
                                          /\ ents[e].entry_date < recent_start}
        count(S, m) == Cardinality({e \in S : ents[e].mood = m})
        all_moods == {ents[e].mood : e \in recent_entries \cup previous_entries}
        trend(m) == IF count(previous_entries, m) = 0
                    THEN 0
                    ELSE Round2((count(recent_entries, m) - count(previous_entries, m)) * 100,
                                count(previous_entries, m))
    IN  [m \in all_moods |->
           [recent_count |-> count(recent_entries, m),
            previous_count |-> count(previous_entries, m),
            trend_percentage |-> trend(m),
            trend_direction |->
                IF count(recent_entries, m) > count(previous_entries, m) THEN "up"
                ELSE IF count(recent_entries, m) < count(previous_entries, m) THEN "down"
                ELSE "stable"]]

\* JournalMoodAnalysis._calculate_mood_trends
_calculate_mood_trends(ents, user_id) ==
    LET recent_start == today - 7
        previous_start == recent_start - 7
        mine == {e \in DOMAIN ents : ents[e].user_id = user_id /\ ents[e].mood # "none"}
        recent_entries == {e \in mine : /\ ents[e].entry_date >= recent_start
                                        /\ ents[e].entry_date <= today}
        previous_entries == {e \in mine : /\ ents[e].entry_date >= previous_start
                                          /\ ents[e].entry_date < recent_start}
        count(S, m) == Cardinality({e \in S : ents[e].mood = m})
        all_moods == {ents[e].mood : e \in recent_entries \cup previous_entries}
        trend(m) == IF count(previous_entries, m) = 0
                    THEN (IF count(recent_entries, m) > 0 THEN 10000 ELSE 0)
                    ELSE Round2((count(recent_entries, m) - count(previous_entries, m)) * 100,
                                count(previous_entries, m))
    IN  [m \in all_moods |->
           [recent_count |-> count(recent_entries, m),
            previous_count |-> count(previous_entries, m),
            trend_percentage |-> trend(m),
            trend_direction |->
                IF count(recent_entries, m) > count(previous_entries, m) THEN "up"
                ELSE IF count(recent_entries, m) < count(previous_entries, m) THEN "down"
                ELSE "stable"]]

\* the breakdown {notebook: {mood: count}} of the entries S
breakdown(ents, S) ==
    [n \in {ents[e].notebook_id : e \in S} |->
       [m \in {ents[e].mood : e \in {x \in S : ents[x].notebook_id = n}} |->
          Cardinality({e \in S : ents[e].notebook_id = n /\ ents[e].mood = m})]]

\* JournalMoodAnalysis.get_mood_statistics, found the entries search
\* returned for the domain
get_mood_statistics(ents, found, user_id, period) ==
    LET HasMood(e) == ents[e].mood # "none"
        mood_entries == SelectSeq(found, HasMood)
        mood_counts == dict_count(moods_of(ents, mood_entries), <<>>)
        total_entries == Len(mood_entries)
    IN  IF mood_entries = <<>>
        THEN [total_entries |-> 0,
              mood_counts |-> <<>>,
              mood_percentages |-> <<>>,
              most_common_mood |-> "None",
              mood_trends |-> <<>>,
              notebook_breakdown |-> <<>>]
        ELSE [total_entries |-> total_entries,
              mood_counts |-> [m \in dict_keys(mood_counts) |-> dict_get(mood_counts, m)],
              mood_percentages |-> mood_percentages(mood_counts, total_entries),
              most_common_mood |-> most_common(mood_counts),
              mood_trends |-> _calculate_mood_trends(ents, user_id),
              notebook_breakdown |->
                  breakdown(ents, {mood_entries[i] : i \in DOMAIN mood_entries}),
              period |-> period]

\* the consistency with the changes taken over the number of entries
_calculate_mood_consistency_PerEntry(mood_sequence) ==
    IF mood_sequence = <<>>
    THEN [score |-> 0, trend |-> "stable"]
    ELSE LET changes == Cardinality({i \in 2..Len(mood_sequence) :
                                       mood_sequence[i] # mood_sequence[i - 1]})
             steps == Len(mood_sequence)
         IN  [score |-> Round2(100 * (steps - changes), steps),
              changes |-> changes,
              trend |-> IF 100 * (steps - changes) > 70 * steps THEN "high"
                        ELSE IF 100 * (steps - changes) > 40 * steps THEN "medium"
                        ELSE "low"]

\* JournalMoodAnalysis._calculate_mood_consistency
_calculate_mood_consistency(mood_sequence) ==
    IF mood_sequence = <<>>
    THEN [score |-> 0, trend |-> "stable"]
    ELSE LET changes == Cardinality({i \in 2..Len(mood_sequence) :
                                       mood_sequence[i] # mood_sequence[i - 1]})
             steps == IF Len(mood_sequence) - 1 > 1 THEN Len(mood_sequence) - 1 ELSE 1
         IN  [score |-> Round2(100 * (steps - changes), steps),
              changes |-> changes,
              trend |-> IF 100 * (steps - changes) > 70 * steps THEN "high"
                        ELSE IF 100 * (steps - changes) > 40 * steps THEN "medium"
                        ELSE "low"]

\* the domain of get_mood_timeline
timeline_domain(ents, user_id, days) ==
    {e \in DOMAIN ents : /\ ents[e].user_id = user_id
                         /\ ents[e].mood # "none"
                         /\ ents[e].entry_date >= today - days}

\* JournalMoodAnalysis.get_mood_timeline, found the entries search returned
get_mood_timeline(ents, found, user_id, days) ==
    [timeline_data |-> [i \in DOMAIN found |->
                          [date |-> ents[found[i]].entry_date,
                           mood |-> ents[found[i]].mood,
                           word_count |-> ents[found[i]].word_count,
                           notebook |-> ents[found[i]].notebook_id]],
     mood_sequence |-> [i \in DOMAIN found |->
                          [date |-> ents[found[i]].entry_date,
                           mood |-> ents[found[i]].mood]],
     consistency |-> _calculate_mood_consistency(moods_of(ents, found)),
     days |-> days,
     total_entries |-> Len(found)]

\* the domain of get_mood_calendar for the month that starts on day first
calendar_domain(ents, user_id, first) ==
    {e \in DOMAIN ents : /\ ents[e].user_id = user_id
                         /\ ents[e].mood # "none"
                         /\ ents[e].entry_date >= first
                         /\ ents[e].entry_date < next_month_start(first)}

\* JournalMoodAnalysis.get_mood_calendar, found the entries search returned
get_mood_calendar(ents, found, user_id, first) ==
    LET OnDay(d) == LET Is(e) == ents[e].entry_date = d IN SelectSeq(found, Is)
        days == {ents[found[i]].entry_date : i \in DOMAIN found}
        counter(d) == dict_count(moods_of(ents, OnDay(d)), <<>>)
    IN  [month |-> first,
         calendar_data |-> [d \in days |->
                              [moods |-> moods_of(ents, OnDay(d)),
                               entries |-> [i \in DOMAIN OnDay(d) |->
                                              [mood |-> ents[OnDay(d)[i]].mood,
                                               word_count |-> ents[OnDay(d)[i]].word_count]],
                               primary_mood |-> dict_max(counter(d), 1, 1),
                               entry_count |-> Len(OnDay(d))]],
         mood_summary |-> LET d == dict_count(moods_of(ents, found), <<>>)
                          IN  [m \in dict_keys(d) |-> dict_get(d, m)],
         total_days_with_entries |-> Cardinality(days),
         total_entries |-> Len(found)]

\* a domain without the user
correlations_domain_AllUsers(ents, user_id) ==
    {e \in DOMAIN ents : ents[e].mood # "none"}

\* the domain of get_mood_correlations
correlations_domain(ents, user_id) ==
    {e \in DOMAIN ents : ents[e].user_id = user_id /\ ents[e].mood # "none"}

RECURSIVE sum_words(_, _)
sum_words(ents, S) ==
    IF S = {} THEN 0
    ELSE LET e == CHOOSE x \in S : TRUE
         IN  ents[e].word_count + sum_words(ents, S \ {e})

\* JournalMoodAnalysis.get_mood_correlations, found the entries search
\* returned
get_mood_correlations(ents, found, user_id) ==
    LET S == {found[i] : i \in DOMAIN found}
        of(m) == {e \in S : ents[e].mood = m}
        moods == {ents[e].mood : e \in S}
    IN  IF found = <<>> THEN <<>>
        ELSE [mood_avg_words |->
                 [m \in moods |-> Round2(sum_words(ents, of(m)), Cardinality(of(m)))],
              mood_notebook_distribution |->
                 [m \in moods |->
                    [n \in {ents[e].notebook_id : e \in of(m)} |->
                       Cardinality({e \in of(m) : ents[e].notebook_id = n})]],
              mood_weekday_distribution |->
                 [m \in moods |->
                    [w \in 0..6 |->
                       Cardinality({e \in of(m) : weekday(ents[e].entry_date) = w})]]]

(***************************************************************************)
(* Name search: JournalEntry._name_search and the search text.  A domain   *)
(* is a sequence of elements of one shape, an operator ("&", "|") or a     *)
(* leaf (field, op, value), the value a sequence; a title or a name is a   *)
(* text.  Notebook and tag rows hold no name: every notebook is named      *)
(* notes and every tag is named tag.                                       *)
(***************************************************************************)
Op(o) == [field |-> "", op |-> o, value |-> <<>>]
Leaf(f, o, v) == [field |-> f, op |-> o, value |-> v]

notebook_name(n) == <<"n", "o", "t", "e", "s">>
tag_name(t) == <<"t", "a", "g">>

\* the key of a mood and its label in the selection, as texts
mood_key(m) ==
    CASE m = "happy" -> <<"h", "a", "p", "p", "y">>
      [] m = "sad" -> <<"s", "a", "d">>
      [] m = "tired" -> <<"t", "i", "r", "e", "d">>
      [] OTHER -> <<>>
mood_display(m) ==
    CASE m = "happy" -> <<"~emoji~", " ", "H", "a", "p", "p", "y">>
      [] m = "sad" -> <<"~emoji~", " ", "S", "a", "d">>
      [] m = "tired" -> <<"~emoji~", " ", "T", "i", "r", "e", "d">>
      [] OTHER -> <<>>

\* str.lower()
lower(s) == [k \in 1..Len(s) |-> Lower(s[k])]

\* ' '.join(parts)
RECURSIVE join(_)
join(parts) ==
    IF parts = <<>> THEN <<>>
    ELSE IF Len(parts) = 1 THEN parts[1]
    ELSE parts[1] \o <<" ">> \o join(Tail(parts))

\* the names of the tags T, in the order of their ids
RECURSIVE tag_names(_)
tag_names(T) ==
    IF T = {} THEN <<>>
    ELSE LET t == CHOOSE x \in T : \A y \in T : x <= y
         IN  <<tag_name(t)>> \o tag_names(T \ {t})

\* JournalEntry._compute_search_vector for entry e
_compute_search_vector(ents, e) ==
    LET text_content ==
            Strip(CollapseSpace(html_unescape(SubTags(<<" ">>, ents[e].content, 1)), 1))
        search_parts ==
            <<lower(ents[e].name)>>
            \o (IF text_content # <<>> THEN <<lower(text_content)>> ELSE <<>>)
            \o (IF ents[e].tag_ids # {}
                THEN <<lower(join(tag_names(ents[e].tag_ids)))>> ELSE <<>>)
            \o <<lower(notebook_name(ents[e].notebook_id))>>
            \o (IF ents[e].mood # "none"
                THEN <<mood_key(ents[e].mood), lower(mood_display(ents[e].mood))>>
                ELSE <<>>)
    IN  join(search_parts)

\* str.split(): the maximal runs of s without white space, from position i
\* on, word the run read so far
RECURSIVE split(_, _, _)
split(s, i, word) ==
    IF i > Len(s) THEN (IF word = <<>> THEN <<>> ELSE <<word>>)
    ELSE IF IsSpace(s[i])
         THEN (IF word = <<>> THEN <<>> ELSE <<word>>) \o split(s, i + 1, <<>>)
         ELSE split(s, i + 1, Append(word, s[i]))

\* the operator ilike on a text: the value, a wildcard % at its ends taken
\* off, occurs in the text, ignoring case (the values of the model hold no
\* other wildcard)
ilike(text, value) ==
    LET inner == SelectSeq(value, LAMBDA ch : ch # "%")
    IN  \E i \in 1..(Len(text) - Len(inner) + 1) :
           \A k \in 1..Len(inner) : Lower(text[i + k - 1]) = Lower(inner[k])

\* a leaf of a domain on entry e
leaf(ents, e, l) ==
    CASE l.field = "name" -> ilike(ents[e].name, l.value)
      [] l.field = "content" -> ilike(ents[e].content, l.value)
      [] l.field = "tag_ids.name" ->
           \E t \in ents[e].tag_ids : ilike(tag_name(t), l.value)
      [] l.field = "notebook_id.name" ->
           ilike(notebook_name(ents[e].notebook_id), l.value)
      [] l.field = "search_vector" ->
           ilike(_compute_search_vector(ents, e), l.value)
      [] l.field = "state" -> ents[e].state = l.value[1]

\* the expression of a domain in prefix notation that starts at position
\* i, on entry e: its value and the position after it
RECURSIVE expression(_, _, _, _)
expression(ents, e, domain, i) ==
    IF domain[i].op \in {"&", "|"}
    THEN LET left == expression(ents, e, domain, i + 1)
             right == expression(ents, e, domain, left.next)
         IN  [value |-> IF domain[i].op = "&"
                        THEN left.value /\ right.value
                        ELSE left.value \/ right.value,
              next |-> right.next]
    ELSE [value |-> leaf(ents, e, domain[i]), next |-> i + 1]

\* the expressions of a domain from position i on all hold on entry e
RECURSIVE holds(_, _, _, _)
holds(ents, e, domain, i) ==
    IF i > Len(domain) THEN TRUE
    ELSE LET first == expression(ents, e, domain, i)
         IN  first.value /\ holds(ents, e, domain, first.next)

\* models.Model._search: the entries the domain holds on
_search(ents, domain) == {e \in DOMAIN ents : holds(ents, e, domain, 1)}

\* the domain of one search term
term_domain(term) ==
    <<Op("|"), Op("|"), Op("|"), Op("|"),
      Leaf("name", "ilike", term),
      Leaf("content", "ilike", term),
      Leaf("tag_ids.name", "ilike", term),
      Leaf("notebook_id.name", "ilike", term),
      Leaf("search_vector", "ilike", <<"%">> \o term \o <<"%">>)>>

\* the loop of _name_search over search_terms, from the k-th term on
RECURSIVE build_domain(_, _, _, _)
build_domain(search_terms, k, domain, args) ==
    IF k > Len(search_terms) THEN domain
    ELSE IF Len(search_terms[k]) > 2
         THEN build_domain(search_terms, k + 1,
                           IF domain = args
                           THEN term_domain(search_terms[k])
                           ELSE <<Op("&")>> \o domain \o term_domain(search_terms[k]),
                           args)
         ELSE build_domain(search_terms, k + 1, domain, args)

\* JournalEntry._name_search; the call of super() with an empty name and
\* the operator ilike searches args alone
_name_search(ents, name, args) ==
    IF name # <<>>
    THEN _search(ents, build_domain(split(Strip(name), 1, <<>>), 1, args, args))
    ELSE _search(ents, args)

(***************************************************************************)
(* The state after the module is installed: no record yet, and the first   *)
(* user logged in.                                                         *)
(***************************************************************************)
NoTxn == [entry |-> 0, content |-> <<>>, cache |-> <<>>, rounds |-> 0, pend |-> {}]
NoResult == [query |-> "none"]
NoWrites == [calls |-> 0, filled |-> 0, restores |-> 0]

Init ==
    /\ entries = <<>>
    /\ versions = {}
    /\ notebooks = <<>>
    /\ tags = <<>>
    /\ uid = "u1"
    /\ ok = TRUE
    /\ response = NoResponse
    /\ files = {}
    /\ nwrites = [e \in EntryIds |-> NoWrites]
    /\ pc = [w \in Workers |-> "idle"]
    /\ txn = [w \in Workers |-> NoTxn]
    /\ today = 1
    /\ result = NoResult

\* the part of the state the entry operations leave alone
EntryFrame == UNCHANGED <<notebooks, tags, uid, response, files, pc, txn, today, result>>

\* an operation on entries and versions ends in the state db
Store(db) ==
    /\ entries' = db.entries
    /\ versions' = db.versions
    /\ ok' = db.ok

\* the version table has room for n more rows
Room(n) == Cardinality(versions) + n <= MaxVersions

\* a user logs in: the following requests run as u
Login(u) ==
    /\ u # uid
    /\ uid' = u
    /\ ok' = TRUE
    /\ UNCHANGED <<entries, versions, notebooks, tags, response, files, pc, txn, today, result>>

\* JournalNotebook.create, the new row taking one of ids
CreateNotebook(ids) ==
    /\ ids \ NotebookSet # {}
    /\ notebooks' = With(notebooks, NewId(ids, NotebookSet),
                         [user_id |-> uid, active |-> TRUE])
    /\ ok' = TRUE
    /\ UNCHANGED <<entries, versions, tags, uid, response, files, pc, txn, today, result>>

\* JournalTag.create
CreateTag ==
    /\ TagIds \ TagSet # {}
    /\ tags' = With(tags, NewId(TagIds, TagSet), [active |-> TRUE])
    /\ ok' = TRUE
    /\ UNCHANGED <<entries, versions, notebooks, uid, response, files, pc, txn, today, result>>

\* JournalEntry.create
CreateEntry(content, notebook, tagset) ==
    /\ EntryIds \ EntrySet # {}
    /\ notebook \in NotebookSet
    /\ tagset \subseteq TagSet
    /\ entries' = With(entries, NewId(EntryIds, EntrySet),
                       create(content, notebook, tagset, uid))
    /\ ok' = TRUE
    /\ UNCHANGED versions
    /\ EntryFrame

\* JournalEntry.write with the content field in vals
WriteContent(e, content) ==
    /\ e \in EntrySet
    /\ Room(1)
    /\ Store(write(entries, versions, e, [content |-> content], uid))
    /\ EntryFrame

\* JournalEntry.write of the tags alone
WriteTags(e, tagset) ==
    /\ e \in EntrySet
    /\ tagset \subseteq TagSet
    /\ tagset # entries[e].tag_ids
    /\ Store(write(entries, versions, e, [tag_ids |-> <<6, 0, tagset>>], uid))
    /\ EntryFrame

\* JournalEntry.action_restore_version
RestoreVersion(e, version_id) ==
    /\ e \in EntrySet
    /\ Room(2)
    /\ Store(action_restore_version(entries, versions, e, version_id, uid))
    /\ EntryFrame

\* a call of JournalEntry.action_restore_version, its return value kept
\* in result
RestoreVersionCall(e, version_id) ==
    /\ e \in EntrySet
    /\ Room(2)
    /\ LET db == action_restore_version(entries, versions, e, version_id, uid)
       IN  /\ Store(db)
           /\ result' = [query |-> "restore", entry |-> e,
                         version |-> version_id, value |-> db.ok]
    /\ UNCHANGED <<notebooks, tags, uid, response, files, pc, txn, today>>

\* JournalEntry.action_publish
Publish(e) ==
    /\ e \in EntrySet
    /\ Store(action_publish(entries, versions, e, uid))
    /\ EntryFrame

\* JournalEntry.action_draft
Draft(e) ==
    /\ e \in EntrySet
    /\ Store(action_draft(entries, versions, e, uid))
    /\ EntryFrame

\* JournalEntry.action_archive
Archive(e) ==
    /\ e \in EntrySet
    /\ Store(action_archive(entries, versions, e, uid))
    /\ EntryFrame

\* JournalEntry.action_toggle_favorite
ToggleFavorite(e) ==
    /\ e \in EntrySet
    /\ Store(action_toggle_favorite(entries, versions, e, uid))
    /\ EntryFrame

\* JournalEntry.action_duplicate
Duplicate(e) ==
    /\ e \in EntrySet
    /\ EntryIds \ EntrySet # {}
    /\ entries' = With(entries, NewId(EntryIds, EntrySet), action_duplicate(entries, e))
    /\ ok' = TRUE
    /\ UNCHANGED versions
    /\ EntryFrame

\* JournalEntry.action_delete
DeleteEntry(e) ==
    /\ e \in EntrySet
    /\ Store(unlink_entries(entries, versions, {e}))
    /\ EntryFrame

\* JournalNotebook.unlink on a set of notebooks
UnlinkNotebooks(S) ==
    /\ S # {}
    /\ S \subseteq NotebookSet
    /\ LET db == unlink(notebooks, entries, versions, S)
       IN  /\ notebooks' = db.notebooks
           /\ Store(db)
    /\ UNCHANGED <<tags, uid, response, files, pc, txn, today, result>>

\* JournalNotebook.action_delete on a set of notebooks
DeleteNotebooks(S) ==
    /\ S # {}
    /\ S \subseteq NotebookSet
    /\ LET db == action_delete(notebooks, entries, versions, S)
       IN  /\ notebooks' = db.notebooks
           /\ Store(db)
    /\ UNCHANGED <<tags, uid, response, files, pc, txn, today, result>>

\* JournalTag.action_archive on a set of tags
ArchiveTags(S) ==
    /\ S # {}
    /\ S \subseteq TagSet
    /\ LET db == tag_action_archive(tags, entries, versions, S, uid)
       IN  /\ tags' = db.tags
           /\ Store(db)
    /\ UNCHANGED <<notebooks, uid, response, files, pc, txn, today, result>>

\* JournalTag.action_unarchive on a set of tags
UnarchiveTags(S) ==
    /\ S # {}
    /\ S \subseteq TagSet
    /\ tags' = tag_action_unarchive(tags, S)
    /\ ok' = TRUE
    /\ UNCHANGED <<entries, versions, notebooks, uid, response, files, pc, txn, today, result>>

\* the state the endpoints leave alone: they store nothing
\* JournalEntry.create with entry_date and mood in vals, the new row taking
\* one of ids; the constraint on entry_date runs on the new record (the
\* default of entry_date, context_today, is the date of the user's time
\* zone, one of the dates)
CreateEntryOn(ids, content, notebook, entry_date, mood) ==
    /\ ids \ EntrySet # {}
    /\ notebook \in NotebookSet
    /\ LET id == NewId(ids, EntrySet)
           then == With(entries, id,
                        [create(content, notebook, {}, uid)
                           EXCEPT !.entry_date = entry_date, !.mood = mood])
       IN  Store(IF _check_entry_date(then, {id})
                 THEN DB(then, versions)
                 ELSE Raised(entries, versions))
    /\ EntryFrame

\* JournalEntry.write of entry_date alone
WriteDate(e, entry_date) ==
    /\ e \in EntrySet
    /\ Store(write(entries, versions, e, [entry_date |-> entry_date], uid))
    /\ EntryFrame

\* JournalEntry.write of mood alone
WriteMood(e, mood) ==
    /\ e \in EntrySet
    /\ mood # entries[e].mood
    /\ Store(write(entries, versions, e, [mood |-> mood], uid))
    /\ EntryFrame

\* n days pass
Tick(n) ==
    /\ today + n <= MaxDay
    /\ today' = today + n
    /\ UNCHANGED <<entries, versions, notebooks, tags, uid, ok, response, files,
                   pc, txn, result>>

\* a query that clears the moods it has read
MoodFrame_Clears ==
    /\ entries' = [e \in DOMAIN entries |-> [entries[e] EXCEPT !.mood = "none"]]
    /\ UNCHANGED <<versions, notebooks, tags, uid, ok, response, files,
                   pc, txn, today>>

\* the analytics queries read: what is stored stays
MoodFrame ==
    UNCHANGED <<entries, versions, notebooks, tags, uid, ok, response, files,
                pc, txn, today>>

\* user_id or self.env.user.id
UserOr(user_id) == IF user_id = "None" THEN uid ELSE user_id

\* a call of get_mood_statistics
GetMoodStatistics(user_id, period) ==
    /\ \E found \in search(entries, statistics_domain(entries, UserOr(user_id), period)) :
         result' = [query |-> "statistics", user_id |-> UserOr(user_id),
                    period |-> period, found |-> found,
                    value |-> get_mood_statistics(entries, found, UserOr(user_id), period)]
    /\ MoodFrame

\* a call of get_mood_timeline
GetMoodTimeline(user_id, days) ==
    /\ \E found \in search_by_date(entries, timeline_domain(entries, UserOr(user_id), days)) :
         result' = [query |-> "timeline", user_id |-> UserOr(user_id),
                    days |-> days, found |-> found,
                    value |-> get_mood_timeline(entries, found, UserOr(user_id), days)]
    /\ MoodFrame

\* a call of get_mood_calendar for the month of day
GetMoodCalendar(user_id, day) ==
    /\ \E found \in search(entries, calendar_domain(entries, UserOr(user_id), month_start(day))) :
         result' = [query |-> "calendar", user_id |-> UserOr(user_id),
                    first |-> month_start(day), found |-> found,
                    value |-> get_mood_calendar(entries, found, UserOr(user_id), month_start(day))]
    /\ MoodFrame

\* a call of get_mood_correlations
GetMoodCorrelations(user_id) ==
    /\ \E found \in search(entries, correlations_domain(entries, UserOr(user_id))) :
         result' = [query |-> "correlations", user_id |-> UserOr(user_id),
                    found |-> found,
                    value |-> get_mood_correlations(entries, found, UserOr(user_id))]
    /\ MoodFrame

\* the caller has its result
Return ==
    /\ result # NoResult
    /\ result' = NoResult
    /\ MoodFrame

HttpFrame == UNCHANGED <<entries, versions, notebooks, tags, uid, pc, txn, today, result>>

VersionIdSet == {v.id : v \in versions}

\* GET /journal/entry/<entry_id>/pdf
ExportPdf(entry_id, outcome, pdf_written, cleanup) ==
    /\ response' = export_pdf(entries, uid, entry_id, outcome, pdf_written)
    /\ files' = export_pdf_files(entries, uid, entry_id, outcome, pdf_written, cleanup)
    /\ ok' = TRUE
    /\ HttpFrame

\* GET /journal/entry/<entry_id>/markdown
ExportMarkdown(entry_id) ==
    /\ response' = export_markdown(entries, uid, entry_id)
    /\ ok' = TRUE
    /\ UNCHANGED files
    /\ HttpFrame

\* GET /journal/compare/<entry_id>/<version1_id>/<version2_id>
CompareVersions(entry_id, version1_id, version2_id) ==
    /\ response' = compare_versions(entries, versions, uid, entry_id,
                                    version1_id, version2_id)
    /\ ok' = TRUE
    /\ UNCHANGED files
    /\ HttpFrame

\* GET /journal/compare/<entry_id>/<version_id>/current
CompareWithCurrent(entry_id, version_id) ==
    /\ response' = compare_with_current(entries, versions, uid, entry_id, version_id)
    /\ ok' = TRUE
    /\ UNCHANGED files
    /\ HttpFrame

\* the titles, contents, search strings and filters of the name search
TitleAbc == <<"A", "b", "c">>
TitleXyz == <<"x", "y", "z">>
Titles == {TitleAbc, TitleXyz}
SearchContents == {ContentA, TitleXyz}
SearchNames ==
    {<<>>,
     <<"a", "b">>,
     <<"a", "b", "c">>,
     <<"a", "b", "c", " ", "x", "y", "z">>,
     <<" ", "x", "y", " ", "a", "b", "c">>}
SearchArgs == {<<>>, <<Leaf("state", "=", <<"published">>)>>}

\* JournalEntry.create with the title in vals
CreateEntryNamed(name, content, notebook) ==
    /\ EntryIds \ EntrySet # {}
    /\ notebook \in NotebookSet
    /\ entries' = With(entries, NewId(EntryIds, EntrySet),
                       create(content, notebook, {}, uid) @@ [name |-> name])
    /\ ok' = TRUE
    /\ UNCHANGED versions
    /\ EntryFrame

\* a call of _name_search
NameSearch(name, args) ==
    /\ result' = [query |-> "name_search", name |-> name, args |-> args,
                  value |-> _name_search(entries, name, args)]
    /\ MoodFrame

(***************************************************************************)
(* Concurrent requests.  Each worker runs one content edit or one restore  *)
(* of an entry as a transaction: it reads the record into its cache, runs  *)
(* _create_version (the INSERT of the version row is checked against the   *)
(* UNIQUE constraint at once, the incremented counter stays in the cache), *)
(* and the final write stores the entry's fields and commits.              *)
(***************************************************************************)
\* the version rows inserted by the open transactions of the workers ws
Pending(ws) == UNION {txn[w].pend : w \in ws}

\* what remains to do after a round of _create_version
AfterRound(rounds) == IF rounds > 1 THEN "create" ELSE "write"

ConcFrame == UNCHANGED <<notebooks, tags, uid, response, files, today, result>>

\* a request write({'content': content}) on entry e starts
BeginEdit(w, e, content) ==
    /\ pc[w] = "idle"
    /\ e \in EntrySet
    /\ Cardinality(versions \cup Pending(Workers)) + 1 <= MaxVersions
    /\ txn' = [txn EXCEPT ![w] = [entry |-> e, content |-> content,
                                  cache |-> entries[e], rounds |-> 1, pend |-> {}]]
    /\ pc' = [pc EXCEPT ![w] = "create"]
    /\ UNCHANGED <<entries, versions, ok>>
    /\ ConcFrame

\* a request action_restore_version(version_id) on entry e starts
BeginRestore(w, e, version_id) ==
    /\ pc[w] = "idle"
    /\ e \in EntrySet
    /\ Cardinality(versions \cup Pending(Workers)) + 2 <= MaxVersions
    /\ \E v \in versions :
         /\ v.id = version_id
         /\ v.entry_id = e
         /\ txn' = [txn EXCEPT ![w] = [entry |-> e, content |-> v.content,
                                       cache |-> entries[e], rounds |-> 2, pend |-> {}]]
    /\ pc' = [pc EXCEPT ![w] = "create"]
    /\ UNCHANGED <<entries, versions, ok>>
    /\ ConcFrame

\* one call of _create_version in the transaction of w: the INSERT waits
\* for an open transaction that inserted the same (entry, number), and
\* raises when a stored row or a row of its own has it
TxnCreate(w) ==
    /\ pc[w] = "create"
    /\ LET t == txn[w]
           round == _create_version([x \in {t.entry} |-> t.cache],
                                    versions \cup t.pend, t.entry, uid)
           inserted == round.versions \ (versions \cup t.pend)
           fresh == {[v EXCEPT !.id = NewVersionId(versions \cup Pending(Workers), t.entry)]
                       : v \in inserted}
       IN  /\ \A v \in inserted : unique_version_per_entry(Pending(Workers \ {w}), v)
           /\ IF ~round.ok
              THEN /\ txn' = [txn EXCEPT ![w].pend = {}]
                   /\ pc' = [pc EXCEPT ![w] = "rejected"]
                   /\ ok' = FALSE
              ELSE /\ txn' = [txn EXCEPT ![w].pend = @ \cup fresh,
                                         ![w].cache = round.entries[t.entry],
                                         ![w].rounds = @ - 1]
                   /\ pc' = [pc EXCEPT ![w] = AfterRound(t.rounds)]
                   /\ ok' = TRUE
    /\ UNCHANGED <<entries, versions>>
    /\ ConcFrame

\* super().write(vals) and the commit: the entry's changed fields and the
\* inserted version rows are stored
TxnWrite(w) ==
    /\ pc[w] = "write"
    /\ LET t == txn[w]
           vals == IF t.pend = {}
                   THEN [content |-> t.content]
                   ELSE [content |-> t.content,
                         current_version |-> t.cache.current_version]
       IN  /\ entries' = super_write(entries, t.entry, vals)
           /\ versions' = versions \cup t.pend
           /\ txn' = [txn EXCEPT ![w].pend = {}]
    /\ pc' = [pc EXCEPT ![w] = "done"]
    /\ ok' = TRUE
    /\ ConcFrame

\* the request is over
TxnEnd(w) ==
    /\ pc[w] \in {"done", "rejected"}
    /\ pc' = [pc EXCEPT ![w] = "idle"]
    /\ txn' = [txn EXCEPT ![w] = NoTxn]
    /\ UNCHANGED <<entries, versions, ok>>
    /\ ConcFrame

(***************************************************************************)
(* Specifications.                                                         *)
(***************************************************************************)
\* the requests that are not counted in nwrites
NoCount == UNCHANGED nwrites

\* entries and their versions, one request after the other
Next ==
    \/ CreateNotebook({1}) /\ NoCount
    \/ \E c \in Contents : CreateEntry(c, 1, {}) /\ NoCount
    \/ \E e \in EntryIds, c \in Contents : WriteContent(e, c) /\ NoCount
    \/ \E e \in EntryIds, v \in VersionIdSet : RestoreVersion(e, v) /\ NoCount
    \/ \E e \in EntryIds : Publish(e) /\ NoCount
    \/ \E e \in EntryIds : Draft(e) /\ NoCount
    \/ \E e \in EntryIds : Archive(e) /\ NoCount
    \/ \E e \in EntryIds : ToggleFavorite(e) /\ NoCount
    \/ \E e \in EntryIds : Duplicate(e) /\ NoCount
    \/ \E e \in EntryIds : DeleteEntry(e) /\ NoCount

Spec == Init /\ [][Next]_vars

\* the same without deletion and with writes of the mood alone
NextHistory ==
    \/ CreateNotebook({1}) /\ NoCount
    \/ \E c \in Contents : CreateEntry(c, 1, {}) /\ NoCount
    \/ \E e \in EntryIds, c \in Contents : WriteContent(e, c) /\ NoCount
    \/ \E e \in EntryIds : WriteMood(e, "happy") /\ NoCount
    \/ \E e \in EntryIds, v \in VersionIdSet : RestoreVersion(e, v) /\ NoCount
    \/ \E e \in EntryIds : Publish(e) /\ NoCount
    \/ \E e \in EntryIds : Draft(e) /\ NoCount
    \/ \E e \in EntryIds : Archive(e) /\ NoCount
    \/ \E e \in EntryIds : ToggleFavorite(e) /\ NoCount
    \/ \E e \in EntryIds : Duplicate(e) /\ NoCount

SpecHistory == Init /\ [][NextHistory]_vars

\* content writes of one entry by either user
NextActing ==
    \/ \E u \in Users : Login(u) /\ NoCount
    \/ CreateNotebook({1}) /\ NoCount
    \/ \E c \in Contents : EntrySet = {} /\ CreateEntry(c, 1, {}) /\ NoCount
    \/ \E e \in EntryIds, c \in Contents : WriteContent(e, c) /\ NoCount

SpecActing == Init /\ [][NextActing]_vars

\* the same without the lifecycle, with the content-modifying writes of
\* each entry counted in nwrites
CountWrite(e, restore) ==
    /\ nwrites[e].calls < MaxWrites
    /\ nwrites' = [nwrites EXCEPT
                     ![e].calls = @ + 1,
                     ![e].filled = IF entries[e].content # <<>> THEN @ + 1 ELSE @,
                     ![e].restores = IF restore /\ entries[e].content # <<>>
                                     THEN @ + 1 ELSE @]

NextWrites ==
    \/ CreateNotebook({1}) /\ NoCount
    \/ \E c \in Contents :
         /\ CreateEntry(c, 1, {})
         /\ nwrites' = [nwrites EXCEPT ![NewId(EntryIds, EntrySet)] = NoWrites]
    \/ \E e \in EntryIds, c \in Contents : WriteContent(e, c) /\ CountWrite(e, FALSE)
    \/ \E e \in EntryIds, v \in versions :
         /\ RestoreVersion(e, v.id)
         /\ IF v.entry_id = e THEN CountWrite(e, TRUE) ELSE UNCHANGED nwrites
    \/ \E e \in EntryIds :
         /\ Duplicate(e)
         /\ nwrites' = [nwrites EXCEPT ![NewId(EntryIds, EntrySet)] = NoWrites]
    \/ \E e \in EntryIds :
         /\ DeleteEntry(e)
         /\ nwrites' = [nwrites EXCEPT ![e] = NoWrites]

SpecWrites == Init /\ [][NextWrites]_vars

\* notebooks and their deletion
NextNotebook ==
    \/ CreateNotebook(NotebookIds) /\ NoCount
    \/ \E c \in FilledContents, nb \in NotebookIds : CreateEntry(c, nb, {}) /\ NoCount
    \/ \E e \in EntryIds : WriteContent(e, ContentAB) /\ NoCount
    \/ \E S \in SUBSET NotebookIds : UnlinkNotebooks(S) /\ NoCount
    \/ \E S \in SUBSET NotebookIds : DeleteNotebooks(S) /\ NoCount

SpecNotebook == Init /\ [][NextNotebook]_vars

\* tags and their archiving
NextTag ==
    \/ CreateNotebook({1}) /\ NoCount
    \/ CreateTag /\ NoCount
    \/ \E T \in SUBSET TagIds : CreateEntry(ContentA, 1, T) /\ NoCount
    \/ \E e \in EntryIds : WriteContent(e, ContentAB) /\ NoCount
    \/ \E e \in EntryIds, T \in SUBSET TagIds : WriteTags(e, T) /\ NoCount
    \/ \E S \in SUBSET TagIds : ArchiveTags(S) /\ NoCount
    \/ \E S \in SUBSET TagIds : UnarchiveTags(S) /\ NoCount

SpecTag == Init /\ [][NextTag]_vars

\* the endpoints, requested by several users; a request is taken when the
\* response to the one before has been delivered
Deliver ==
    /\ response # NoResponse
    /\ response' = NoResponse
    /\ files' = {}
    /\ UNCHANGED <<entries, versions, notebooks, tags, uid, ok, pc, txn, today, result>>

\* no response waits to be delivered
Idle == response = NoResponse

NextHttp ==
    \/ Deliver /\ NoCount
    \/ \E u \in Users : Idle /\ Login(u) /\ NoCount
    \/ Idle /\ CreateNotebook({1}) /\ NoCount
    \/ Idle /\ CreateEntry(ContentA, 1, {}) /\ NoCount
    \/ \E e \in EntryIds : Idle /\ WriteContent(e, ContentAB) /\ NoCount
    \/ \E e \in EntryIds, o \in ExportOutcomes, pw \in BOOLEAN, cl \in CleanupOutcomes :
         Idle /\ ExportPdf(e, o, pw, cl) /\ NoCount
    \/ \E e \in EntryIds : Idle /\ ExportMarkdown(e) /\ NoCount
    \/ \E e \in EntryIds, v1 \in VersionIdSet, v2 \in VersionIdSet :
         Idle /\ CompareVersions(e, v1, v2) /\ NoCount
    \/ \E e \in EntryIds, v \in VersionIdSet :
         Idle /\ CompareWithCurrent(e, v) /\ NoCount

SpecHttp == Init /\ [][NextHttp]_vars

\* entry dates and the clock
NextDate ==
    \/ CreateNotebook({1}) /\ NoCount
    \/ \E d \in Dates : CreateEntryOn(EntryIds, ContentA, 1, d, "none") /\ NoCount
    \/ \E e \in EntryIds, d \in Dates : WriteDate(e, d) /\ NoCount
    \/ \E e \in EntryIds : Duplicate(e) /\ NoCount
    \/ Tick(1) /\ NoCount

SpecDate == Init /\ [][NextDate]_vars

\* moods and the analytics queries, one call at a time
NoCall == result = NoResult

NextMood ==
    \/ Return /\ NoCount
    \/ \E u \in Users : NoCall /\ Login(u) /\ NoCount
    \/ NoCall /\ CreateNotebook({1}) /\ NoCount
    \/ \E m \in Moods \cup {"none"} :
         NoCall /\ CreateEntryOn(MoodEntryIds, ContentA, 1, today, m) /\ NoCount
    \/ \E e \in MoodEntryIds, m \in Moods \cup {"none"} :
         NoCall /\ WriteMood(e, m) /\ NoCount
    \/ NoCall /\ Tick(8) /\ NoCount
    \/ \E p \in Periods : NoCall /\ GetMoodStatistics("None", p) /\ NoCount
    \/ \E d \in {7, 30} : NoCall /\ GetMoodTimeline("None", d) /\ NoCount
    \/ \E d \in {1, today} : NoCall /\ GetMoodCalendar("None", d) /\ NoCount
    \/ NoCall /\ GetMoodCorrelations("None") /\ NoCount

SpecMood == Init /\ [][NextMood]_vars

\* name searches over titled entries, some of them published
NextSearch ==
    \/ Return /\ NoCount
    \/ NoCall /\ CreateNotebook({1}) /\ NoCount
    \/ \E t \in Titles, c \in SearchContents :
         NoCall /\ CreateEntryNamed(t, c, 1) /\ NoCount
    \/ \E e \in EntryIds : NoCall /\ Publish(e) /\ NoCount
    \/ \E name \in SearchNames, args \in SearchArgs :
         NoCall /\ NameSearch(name, args) /\ NoCount

SpecSearch == Init /\ [][NextSearch]_vars

\* restores of the versions stored, of the entry itself or of another
\* one, one call at a time
NextRestore ==
    \/ Return /\ NoCount
    \/ NoCall /\ CreateNotebook({1}) /\ NoCount
    \/ \E c \in Contents : NoCall /\ CreateEntry(c, 1, {}) /\ NoCount
    \/ \E e \in EntryIds, c \in Contents : NoCall /\ WriteContent(e, c) /\ NoCount
    \/ \E e \in EntryIds, v \in versions :
         NoCall /\ RestoreVersionCall(e, v.id) /\ NoCount

SpecRestore == Init /\ [][NextRestore]_vars

\* the trends and the timeline of up to four entries of two moods, dated
\* on the day of their creation or seven days before it
TrendMoods == {"happy", "sad"}

NextTrend ==
    \/ Return /\ NoCount
    \/ NoCall /\ CreateNotebook({1}) /\ NoCount
    \/ \E d \in {today, today - 7}, m \in TrendMoods :
         /\ NoCall
         /\ d \in Dates
         /\ CreateEntryOn(TrendEntryIds, ContentA, 1, d, m)
         /\ NoCount
    \/ NoCall /\ Tick(8) /\ NoCount
    \/ NoCall /\ GetMoodStatistics("None", "all") /\ NoCount
    \/ NoCall /\ GetMoodTimeline("None", 30) /\ NoCount

SpecTrend == Init /\ [][NextTrend]_vars

\* the versions of the first entry, of different contents, and their
\* comparison
NextDiff ==
    \/ Deliver /\ NoCount
    \/ Idle /\ CreateNotebook({1}) /\ NoCount
    \/ Idle /\ CreateEntry(ContentA, 1, {}) /\ NoCount
    \/ \E c \in DiffContents : Idle /\ WriteContent(1, c) /\ NoCount
    \/ \E v1 \in VersionIdSet, v2 \in VersionIdSet :
         Idle /\ CompareVersions(1, v1, v2) /\ NoCount
    \/ \E v \in VersionIdSet : Idle /\ CompareWithCurrent(1, v) /\ NoCount

SpecDiff == Init /\ [][NextDiff]_vars

\* the plain text of an entry's content is written back as its content
WritePlainText(e) ==
    /\ e \in EntrySet
    /\ WriteContent(e, PlainText(entries[e].content))

\* the text normalizer on one entry of every content of TextContents
NextText ==
    \/ CreateNotebook({1}) /\ NoCount
    \/ \E c \in TextContents :
         EntrySet = {} /\ CreateEntry(c, 1, {}) /\ NoCount
    \/ \E e \in EntryIds : WritePlainText(e) /\ NoCount

SpecText == Init /\ [][NextText]_vars

\* concurrent edits and restores
NextConc ==
    \/ CreateNotebook({1}) /\ NoCount
    \/ \E c \in Contents : CreateEntry(c, 1, {}) /\ NoCount
    \/ \E w \in Workers, e \in EntryIds : BeginEdit(w, e, ContentAB) /\ NoCount
    \/ \E w \in Workers, e \in EntryIds, v \in VersionIdSet :
         BeginRestore(w, e, v) /\ NoCount
    \/ \E w \in Workers : TxnCreate(w) /\ NoCount
    \/ \E w \in Workers : TxnWrite(w) /\ NoCount
    \/ \E w \in Workers : TxnEnd(w) /\ NoCount

SpecConc == Init /\ [][NextConc]_vars

(***************************************************************************)
(* Properties.                                                             *)
(***************************************************************************)
\* the sequence numbers of the versions of entry e
Numbers(e) == {v.version_number : v \in version_ids(versions, e)}

\* entry e has exactly n versions, numbered 1..n in creation order, and
\* its counter is n + 1
HasVersions(e, n) ==
    /\ Cardinality(version_ids(versions, e)) = n
    /\ Numbers(e) = 1..n
    /\ \A v \in version_ids(versions, e) : v.version_number = v.id[2]
    /\ entries[e].current_version = n + 1

RestoresOwn(e, v) ==
    /\ e \in EntrySet
    /\ v \in versions
    /\ v.entry_id = e
    /\ entries[e].content # <<>>
    /\ RestoreVersion(e, v.id)

\* C2: restoring a version of an entry whose content is non-empty creates
\* exactly one new version, which carries the entry's content from before
\* the restore, and advances the entry's version counter by exactly one.
C2_RestoreCreatesOneVersion ==
    [][\A e \in EntryIds, v \in versions :
         RestoresOwn(e, v) =>
           /\ \E new \in versions' \ versions :
                /\ versions' = versions \cup {new}
                /\ new.entry_id = e
                /\ new.content = entries[e].content
           /\ entries'[e].current_version = entries[e].current_version + 1]_vars

C4_UniqueSequenceNumbers ==
    /\ \A v1 \in versions \cup Pending(Workers), v2 \in versions \cup Pending(Workers) :
         (v1.entry_id = v2.entry_id /\ v1.version_number = v2.version_number)
           => v1 = v2
    /\ \A w \in Workers : pc[w] = "rejected" => txn[w].pend = {}

\* a request rejected because the number it read is stored already
C4_Witness ==
    \E w \in Workers :
        /\ pc[w] = "rejected"
        /\ \E v \in versions :
             /\ v.entry_id = txn[w].entry
             /\ v.version_number = txn[w].cache.current_version

\* C5: a stored version stays as it is, with its entry, number, content
\* and counts, in every step, unless the step deletes its entry.
C5_VersionsImmutable ==
    [][\A v \in versions : v \in versions' \/ v.entry_id \notin DOMAIN entries']_vars

\* an entry with a version, changed since in content, state and favorite
C5_Witness ==
    \E e \in EntrySet :
        /\ entries[e].is_favorite
        /\ entries[e].state = "archived"
        /\ \E v \in version_ids(versions, e) : v.content # entries[e].content

\* C6: a lifecycle action moves the state of an entry along draft to
\* published, published to archived, published or archived to draft, and
\* otherwise leaves it as it is; a draft is never archived in one action.
C6_LifecycleTransitions ==
    [][\A e \in EntryIds :
         /\ Publish(e) =>
              entries'[e].state =
                IF entries[e].state = "draft" THEN "published" ELSE entries[e].state
         /\ Draft(e) =>
              entries'[e].state =
                IF entries[e].state \in {"published", "archived"}
                THEN "draft" ELSE entries[e].state
         /\ Archive(e) =>
              entries'[e].state =
                IF entries[e].state = "published" THEN "archived" ELSE entries[e].state
         /\ (Publish(e) \/ Draft(e) \/ Archive(e)) =>
              ~(entries[e].state = "draft" /\ entries'[e].state = "archived")]_vars

\* an archived entry
C6_Witness == \E e \in EntrySet : entries[e].state = "archived"

\* C7: a request of a user who does not own the entry it names is
\* answered not found, with no content of the entry or of a version.
C7_NotFoundForNonOwner ==
    (response # NoResponse /\ response.owner # response.user) =>
        /\ response.status = "not_found"
        /\ response.entries_shown = {}
        /\ response.versions_shown = {}

\* C8: unlink of a set of notebooks of which one owns an entry raises and
\* deletes no notebook, entry or version.
C8_UnlinkRejected ==
    [][\A S \in SUBSET NotebookIds :
         (UnlinkNotebooks(S) /\ entry_ids(entries, S) # {}) =>
           /\ ~ok'
           /\ notebooks' = notebooks
           /\ entries' = entries
           /\ versions' = versions]_vars

\* an unlink has raised, the notebooks, entries and versions in place
C8_Witness ==
    /\ ~ok
    /\ \E nb \in NotebookSet : entry_ids(entries, {nb}) # {}
    /\ versions # {}

\* C9: action_delete of notebooks succeeds whatever entries they own;
\* afterwards the notebooks are gone, no entry refers to one of them, no
\* version refers to a deleted entry, and the entries of the other
\* notebooks and their versions are as before.
C9_CascadingDelete ==
    [][\A S \in SUBSET NotebookIds :
         DeleteNotebooks(S) =>
           /\ ok'
           /\ DOMAIN notebooks' = NotebookSet \ S
           /\ \A e \in DOMAIN entries' : entries'[e].notebook_id \notin S
           /\ \A v \in versions' : v.entry_id \in DOMAIN entries'
           /\ \A e \in EntrySet :
                entries[e].notebook_id \notin S =>
                  /\ e \in DOMAIN entries'
                  /\ entries'[e] = entries[e]
                  /\ version_ids(versions', e) = version_ids(versions, e)]_vars

\* entry 1 went with its notebook; entry 2, of the other notebook, and
\* its version are in place
C9_Witness ==
    /\ 1 \notin EntrySet
    /\ 2 \in EntrySet
    /\ version_ids(versions, 2) # {}

\* C10: action_archive of tags leaves them inactive and on no entry, and
\* changes nothing else: the other fields of the entries, the versions and
\* the other tags, with their entries, are as before.
C10_ArchiveDetaches ==
    [][\A S \in SUBSET TagIds :
         ArchiveTags(S) =>
           /\ \A t \in S : ~tags'[t].active /\ tag_entry_ids(entries', t) = {}
           /\ \A t \in TagSet \ S :
                /\ tags'[t] = tags[t]
                /\ tag_entry_ids(entries', t) = tag_entry_ids(entries, t)
           /\ DOMAIN entries' = EntrySet
           /\ \A e \in EntrySet :
                entries'[e] = [entries[e] EXCEPT !.tag_ids = @ \ S]
           /\ versions' = versions]_vars

\* tag 1 archived and on no entry, tag 2 still on an entry with a version
C10_Witness ==
    /\ 1 \in TagSet
    /\ ~tags[1].active
    /\ tag_entry_ids(entries, 1) = {}
    /\ \E e \in tag_entry_ids(entries, 2) : version_ids(versions, e) # {}

\* C11: after every step no stored entry has a date after the current
\* date; a create or a write with a date after the current date raises
\* and leaves the entries as they were; the current date never goes back.
C11_NoFutureEntryDate ==
    [][/\ \A e \in DOMAIN entries' : entries'[e].entry_date <= today'
       /\ \A d \in Dates :
            (d > today /\ CreateEntryOn(EntryIds, ContentA, 1, d, "none")) =>
              (~ok' /\ entries' = entries)
       /\ \A e \in EntryIds, d \in Dates :
            (d > today /\ WriteDate(e, d)) => (~ok' /\ entries' = entries)
       /\ today' >= today]_vars

\* a date after the current date was rejected on a later day, an entry
\* of the day in place
C11_Witness ==
    /\ ~ok
    /\ today > 1
    /\ \E e \in EntrySet : entries[e].entry_date = today

\* the entries of user u with a mood whose date is in the period p
MoodTagged(u, p) ==
    {e \in EntrySet :
       /\ entries[e].user_id = u
       /\ entries[e].mood # "none"
       /\ p = "week" => entries[e].entry_date >= today - 7
       /\ p = "month" => entries[e].entry_date >= month_start(today)
       /\ p = "year" => entries[e].entry_date >= year_start(today)}

Statistics == result.query = "statistics"

\* C12: get_mood_statistics for a user and a period with no mood-tagged
\* entry returns total_entries 0, empty counts, percentages, trends and
\* notebook breakdown, and most_common_mood None, whatever the period.
C12_ZeroStatistics ==
    (Statistics /\ MoodTagged(result.user_id, result.period) = {}) =>
        result.value = [total_entries |-> 0,
                        mood_counts |-> <<>>,
                        mood_percentages |-> <<>>,
                        most_common_mood |-> "None",
                        mood_trends |-> <<>>,
                        notebook_breakdown |-> <<>>]

\* the statistics of the week are zero for a user whose mood-tagged
\* entries are all older, and who has entries without mood in the week
C12_Witness ==
    /\ Statistics
    /\ result.period = "week"
    /\ result.found # <<>>
    /\ result.value.total_entries = 0
    /\ MoodTagged(result.user_id, "all") # {}

RECURSIVE SumOf(_, _)
SumOf(f, S) ==
    IF S = {} THEN 0
    ELSE LET k == CHOOSE x \in S : TRUE IN f[k] + SumOf(f, S \ {k})

\* the sum of the percentages of the result, in hundredths
PercentageSum ==
    SumOf(result.value.mood_percentages, DOMAIN result.value.mood_percentages)

\* C13: the percentages of a non-empty result, each rounded to two
\* decimals, sum to 100 within the rounding error, half a hundredth for
\* each mood.
C13_PercentagesSumTo100 ==
    (Statistics /\ result.value.total_entries > 0) =>
        /\ 2 * (PercentageSum - 10000) <= Cardinality(DOMAIN result.value.mood_percentages)
        /\ 2 * (10000 - PercentageSum) <= Cardinality(DOMAIN result.value.mood_percentages)

\* three moods of one entry each: 33.33 + 33.33 + 33.33
C13_Witness ==
    /\ Statistics
    /\ result.value.total_entries = 3
    /\ PercentageSum = 9999

\* the moods of the mood-tagged entries of the result, in the order of
\* the iteration
Encountered ==
    LET HasMood(e) == entries[e].mood # "none"
    IN  moods_of(entries, SelectSeq(result.found, HasMood))

\* the position at which mood m is encountered first
First(m) ==
    CHOOSE i \in DOMAIN Encountered :
        Encountered[i] = m /\ \A j \in 1..(i - 1) : Encountered[j] # m

\* C14: most_common_mood has the greatest count, and of the moods with
\* the greatest count it is the one encountered first.
C14_MostCommonMood ==
    (Statistics /\ result.value.total_entries > 0) =>
        LET counts == result.value.mood_counts
            best == result.value.most_common_mood
        IN  /\ best \in DOMAIN counts
            /\ \A m \in DOMAIN counts :
                 /\ counts[m] <= counts[best]
                 /\ (counts[m] = counts[best] /\ m # best) => First(best) < First(m)

\* two moods tie and a third comes first with a smaller count, or the
\* tie is between the first two of three
C14_Witness ==
    /\ Statistics
    /\ result.value.total_entries >= 2
    /\ \E m \in DOMAIN result.value.mood_counts :
         /\ m # result.value.most_common_mood
         /\ result.value.mood_counts[m] =
              result.value.mood_counts[result.value.most_common_mood]

\* C15: a step of one of the four queries leaves the entries, versions,
\* notebooks and tags as they were.
C15_QueriesReadOnly ==
    [][(result' # NoResult /\ result' # result) =>
          /\ entries' = entries
          /\ versions' = versions
          /\ notebooks' = notebooks
          /\ tags' = tags]_vars

\* a timeline, calendar or correlations query has answered over stored
\* mood-tagged entries
C15_Witness ==
    /\ result.query \in {"timeline", "calendar", "correlations"}
    /\ result.found # <<>>

\* the entries of user u alone
OwnEntries(u) == Without(entries, {e \in EntrySet : entries[e].user_id # u})

\* C16: the result of a query for user U is a result of the query in the
\* state that holds the entries of U alone.
C16_OwnEntriesOnly ==
    LET u == result.user_id
        own == OwnEntries(u)
        found == result.found
    IN  /\ Statistics =>
             /\ found \in search(own, statistics_domain(own, u, result.period))
             /\ result.value = get_mood_statistics(own, found, u, result.period)
        /\ result.query = "timeline" =>
             /\ found \in search_by_date(own, timeline_domain(own, u, result.days))
             /\ result.value = get_mood_timeline(own, found, u, result.days)
        /\ result.query = "calendar" =>
             /\ found \in search(own, calendar_domain(own, u, result.first))
             /\ result.value = get_mood_calendar(own, found, u, result.first)
        /\ result.query = "correlations" =>
             /\ found \in search(own, correlations_domain(own, u))
             /\ result.value = get_mood_correlations(own, found, u)

\* a query answered for a user while another user has mood-tagged entries
C16_Witness ==
    /\ result # NoResult
    /\ result.found # <<>>
    /\ \E e \in EntrySet : entries[e].user_id # result.user_id /\ entries[e].mood # "none"

\* C17: when a PDF export that created temporary files has returned,
\* neither the HTML input file nor the PDF output file exists.
C17_TemporaryFilesRemoved ==
    (response.route = "pdf" /\ response.status # "not_found") => files = {}

\* the entry of a PDF export request belongs to the user who asks
Exported(e) == e \in EntrySet /\ entries[e].user_id = uid

\* C18: a PDF export whose renderer times out or exits with a code other
\* than 0 answers with the failure page, with no content of the entry,
\* and the answer is a PDF only when the renderer exited with 0 and left
\* its output file.
C18_RenderingFailed ==
    [][\A e \in EntryIds, o \in ExportOutcomes, pw \in BOOLEAN, cl \in CleanupOutcomes :
         (Exported(e) /\ ExportPdf(e, o, pw, cl)) =>
           /\ o \in {"timeout", "nonzero"} =>
                /\ response'.status = "error_page"
                /\ response'.entries_shown = {}
                /\ response'.versions_shown = {}
           /\ response'.status = "pdf" <=> (o = "zero" /\ pw)
           /\ response'.status \in {"pdf", "error_page"}]_vars

\* the failure page of a PDF export
C18_Witness ==
    /\ response.route = "pdf"
    /\ response.status = "error_page"
    /\ response.owner = response.user

\* the blocks of diff of the class
BlocksOf(diff, class) == {k \in DOMAIN diff : diff[k].class = class}

\* diff has exactly one block of the class, with the text
OneBlock(diff, class, text) ==
    /\ Cardinality(BlocksOf(diff, class)) = 1
    /\ \A k \in BlocksOf(diff, class) : diff[k].text = text

\* C19 for the diff of the contents old and new
TwoLineDiff(diff, old, new) ==
    (/\ html_to_text(old) = <<"a", "\n", "b">>
     /\ html_to_text(new) = <<"a", "\n", "c">>) =>
        /\ OneBlock(diff, "diff-context", <<" ", "a", "\n">>)
        /\ OneBlock(diff, "diff-removed", <<"b">>)
        /\ OneBlock(diff, "diff-added", <<"c">>)

\* C19: the comparison of the texts a\nb and a\nc shows exactly one
\* context block, a, exactly one removal block, b, and exactly one
\* addition block, c, besides the hunk-header blocks.
C19_TwoLineDiff ==
    [][/\ \A e \in EntryIds, v1 \in VersionIdSet, v2 \in VersionIdSet :
            (CompareVersions(e, v1, v2) /\ response'.status = "ok") =>
               TwoLineDiff(response'.diff, version_content(versions, v1),
                           version_content(versions, v2))
       /\ \A e \in EntryIds, v \in VersionIdSet :
            (CompareWithCurrent(e, v) /\ response'.status = "ok") =>
               TwoLineDiff(response'.diff, version_content(versions, v),
                           entries[e].content)]_vars

\* C20 for the diff of the contents old and new
NoChangesOrChanges(diff, old, new) ==
    IF html_to_text(old) = html_to_text(new)
    THEN /\ Len(diff) = 1
         /\ diff[1].class = "no-changes"
    ELSE /\ BlocksOf(diff, "no-changes") = {}
         /\ BlocksOf(diff, "diff-added") \cup BlocksOf(diff, "diff-removed") # {}

\* C20: the comparison of two contents of the same plain text shows the
\* no-changes indicator and no other block; the comparison of contents of
\* different plain texts shows an addition or a removal block.
C20_NoChangesIndicator ==
    [][/\ \A e \in EntryIds, v1 \in VersionIdSet, v2 \in VersionIdSet :
            (CompareVersions(e, v1, v2) /\ response'.status = "ok") =>
               NoChangesOrChanges(response'.diff, version_content(versions, v1),
                                  version_content(versions, v2))
       /\ \A e \in EntryIds, v \in VersionIdSet :
            (CompareWithCurrent(e, v) /\ response'.status = "ok") =>
               NoChangesOrChanges(response'.diff, version_content(versions, v),
                                  entries[e].content)]_vars

\* the indicator shown for a version and a current content that differ
\* as HTML and have the same text
C20_Witness ==
    /\ response.route = "compare_current"
    /\ response.status = "ok"
    /\ BlocksOf(response.diff, "no-changes") # {}
    /\ \E v \in versions :
         /\ v.id \in response.versions_shown
         /\ v.content # entries[response.entry_id].content

\* the stored counts of an entry
Counts(entry) == <<entry.word_count, entry.char_count>>

\* the content holds no character reference
NoReference(content) ==
    \A k \in 1..Len(content) : content[k] \notin {"&lt;", "&gt;", "&amp;", "&nbsp;"}

\* C21, as stated: writing the plain text of an entry's content back as
\* its content leaves the word count and the character count as they were.
C21_PlainTextSameCounts ==
    [][\A e \in EntryIds :
         WritePlainText(e) => Counts(entries'[e]) = Counts(entries[e])]_vars

\* C21, amended: writing the plain text of a content that holds no
\* character reference back as the content leaves the word count and the
\* character count as they were.
C21_PlainTextSameCountsNoReference ==
    [][\A e \in EntryIds :
         (WritePlainText(e) /\ NoReference(entries[e].content)) =>
            Counts(entries'[e]) = Counts(entries[e])]_vars

\* the plain text of a content with markup and no reference written back:
\* the version holds the content with markup, the entry its plain text
C21_Witness ==
    \E v \in versions :
       /\ NoReference(v.content)
       /\ v.content # PlainText(v.content)
       /\ v.char_count > 0
       /\ entries[v.entry_id].content = PlainText(v.content)
       /\ entries[v.entry_id].char_count = v.char_count

\* the content is white space alone
WhitespaceOnly(content) ==
    \A k \in 1..Len(content) : content[k] \in {" ", "\n", "\t", "&nbsp;"}

\* the content is one tag alone
OneTag(content) ==
    /\ Len(content) >= 3
    /\ content[1] = "<"
    /\ content[Len(content)] = ">"
    /\ \A k \in 2..(Len(content) - 1) : content[k] \notin {"<", ">"}

\* C22: an entry whose content is empty, white space alone, one tag alone
\* or of an empty plain text has word_count 0 and char_count 0; every
\* entry has word_count <= char_count.
C22_EmptyCountsZero ==
    \A e \in EntrySet :
       /\ (\/ entries[e].content = <<>>
           \/ WhitespaceOnly(entries[e].content)
           \/ OneTag(entries[e].content)
           \/ PlainText(entries[e].content) = <<>>) =>
             Counts(entries[e]) = <<0, 0>>
       /\ entries[e].word_count <= entries[e].char_count

\* an entry of markup and white space with the counts 0
C22_Witness ==
    \E e \in EntrySet :
       /\ entries[e].content # <<>>
       /\ ~WhitespaceOnly(entries[e].content)
       /\ PlainText(entries[e].content) = <<>>
       /\ Counts(entries[e]) = <<0, 0>>

\* the step adds to the versions exactly one row, the snapshot of entry e
\* as it is before the step, taken by user u
SnapshotAdded(e, u) ==
    /\ versions \subseteq versions'
    /\ \E v \in versions' \ versions :
         /\ versions' \ versions = {v}
         /\ v.entry_id = e
         /\ v.version_number = entries[e].current_version
         /\ v.content = entries[e].content
         /\ v.word_count = entries[e].word_count
         /\ v.char_count = entries[e].char_count
         /\ v.created_by = u

\* C23: a write of the content of an entry whose content is non-empty
\* adds one version, numbered with the entry's counter before the write,
\* holding the content and the counts of before the write and the acting
\* user, and increments the counter by one; on an entry whose content is
\* empty it adds no version and leaves the counter as it is.
C23_WriteSnapshotsPriorContent ==
    [][\A e \in EntryIds, c \in Contents :
         WriteContent(e, c) =>
            IF entries[e].content # <<>>
            THEN /\ SnapshotAdded(e, uid)
                 /\ entries'[e].current_version = entries[e].current_version + 1
                 /\ entries'[e].content = c
            ELSE /\ versions' = versions
                 /\ entries'[e].current_version = entries[e].current_version
                 /\ entries'[e].content = c]_vars

\* a version taken by a user who is not the entry's owner, holding a
\* content and counts that are not the entry's any more
C23_Witness ==
    \E v \in versions :
       /\ v.created_by # entries[v.entry_id].user_id
       /\ v.content # entries[v.entry_id].content
       /\ v.char_count # entries[v.entry_id].char_count
       /\ v.version_number = entries[v.entry_id].current_version - 1

\* the step is a write on entry e that leaves its content as it was: a
\* write of the mood alone, a lifecycle action, action_toggle_favorite, or
\* a write of the content the entry already has
ContentKept(e) ==
    \/ WriteMood(e, "happy")
    \/ Publish(e)
    \/ Draft(e)
    \/ Archive(e)
    \/ ToggleFavorite(e)
    \/ WriteContent(e, entries[e].content)

\* C24: a write that leaves the content of an entry as it was (a write of
\* the mood alone, action_publish, action_draft, action_archive,
\* action_toggle_favorite, or a write that supplies the content the entry
\* already has) adds no version and leaves the version counter as it was.
C24_NoVersionWithoutContentChange ==
    [][\A e \in EntryIds :
         (e \in EntrySet /\ ContentKept(e)) =>
            /\ versions' = versions
            /\ entries'[e].current_version = entries[e].current_version]_vars

\* the absolute value of an integer
Abs(n) == IF n >= 0 THEN n ELSE 0 - n

\* the trends of the statistics returned, none when no result holds them
Trends ==
    IF result.query = "statistics" /\ result.value.total_entries > 0
    THEN result.value.mood_trends
    ELSE <<>>

\* C25: for every mood of the trends returned, with r the recent count and
\* p the previous count, the percentage is 100 when p = 0 and r > 0, 0 when
\* p = 0 and r = 0, and (r - p) / p * 100 to two decimals otherwise; the
\* direction is up for a positive percentage, down for a negative one and
\* stable for 0.  The percentage is held in hundredths.
C25_TrendPercentage ==
    \A m \in DOMAIN Trends :
       LET r == Trends[m].recent_count
           p == Trends[m].previous_count
           percentage == Trends[m].trend_percentage
       IN  /\ (p = 0 /\ r > 0) => percentage = 10000
           /\ (p = 0 /\ r = 0) => percentage = 0
           /\ p > 0 => 2 * Abs(percentage * p - (r - p) * 10000) <= p
           /\ Trends[m].trend_direction =
                 (IF percentage > 0 THEN "up"
                  ELSE IF percentage < 0 THEN "down"
                  ELSE "stable")

\* the trend of a mood that fell from 3 entries to 1: -66.67 and down
C25_Witness ==
    \E m \in DOMAIN Trends :
       /\ Trends[m].previous_count = 3
       /\ Trends[m].recent_count = 1
       /\ Trends[m].trend_percentage = 0 - 6667
       /\ Trends[m].trend_direction = "down"

\* the number of entries of the user and the mood dated first..last
CountIn(user_id, m, first, last) ==
    Cardinality({e \in DOMAIN entries :
                   /\ entries[e].user_id = user_id
                   /\ entries[e].mood = m
                   /\ entries[e].entry_date >= first
                   /\ entries[e].entry_date <= last})

\* C26: the trends returned count the entries of two windows of 7
\* consecutive days each, the recent one ending on the current date or on
\* the day before it and the previous one ending on the day before the
\* recent one starts.
C26_SevenDayWindows ==
    \E start \in {today - 7, today - 6} :
       \A m \in DOMAIN Trends :
          /\ Trends[m].recent_count =
                CountIn(result.user_id, m, start, start + 6)
          /\ Trends[m].previous_count =
                CountIn(result.user_id, m, start - 7, start - 1)

\* the consistency of the timeline returned, none when no result holds it
HasTimeline == result.query = "timeline"

\* the changes of mood between adjacent entries of the timeline returned
Changes ==
    LET seq == result.value.mood_sequence
    IN  Cardinality({i \in 2..Len(seq) : seq[i].mood # seq[i - 1].mood})

\* the consistency of a timeline of count entries: the score, held in
\* hundredths, is 100 less the percentage of the changes among the
\* count - 1 adjacent pairs, to two decimals, and 100 without a pair; the
\* label is high above 70, medium above 40 and low otherwise
ConsistencyOf(consistency, count, changes) ==
    /\ IF count > 1
       THEN 2 * Abs(consistency.score * (count - 1)
                    - 10000 * (count - 1 - changes)) <= count - 1
       ELSE consistency.score = 10000
    /\ consistency.score >= 0
    /\ consistency.score <= 10000
    /\ consistency.trend =
         (IF consistency.score > 7000 THEN "high"
          ELSE IF consistency.score > 4000 THEN "medium"
          ELSE "low")

\* C27, as stated: every timeline returned has the score and the label of
\* ConsistencyOf.
C27_Consistency ==
    HasTimeline =>
       ConsistencyOf(result.value.consistency, result.value.total_entries, Changes)

\* C27, amended: every timeline returned with at least one entry has the
\* score and the label of ConsistencyOf; the timeline without an entry
\* has the score 0 and the label stable.
C27_ConsistencyOfEntries ==
    HasTimeline =>
       IF result.value.total_entries > 0
       THEN ConsistencyOf(result.value.consistency, result.value.total_entries, Changes)
       ELSE /\ result.value.consistency.score = 0
            /\ result.value.consistency.trend = "stable"

\* a timeline of four entries with one change of mood: 66.67 and medium
C27_Witness ==
    /\ HasTimeline
    /\ result.value.total_entries = 4
    /\ Changes = 1
    /\ result.value.consistency.score = 6667
    /\ result.value.consistency.trend = "medium"

\* the versions of every entry are numbered 1..current_version - 1
NumberedToCounter ==
    \A e \in EntrySet :
       /\ entries[e].current_version >= 1
       /\ Numbers(e) = 1..(entries[e].current_version - 1)
       /\ Cardinality(version_ids(versions, e)) = entries[e].current_version - 1

\* C28: in every state the sequence numbers of the versions of every entry
\* are exactly 1..current_version - 1, one version to a number, and no
\* step decreases the counter of an entry.
C28_VersionsNumberedToCounter ==
    /\ []NumberedToCounter
    /\ [][\A e \in EntrySet :
            entries'[e].current_version >= entries[e].current_version]_vars

\* an entry with the versions 1, 2, 3 and a second entry of the same
\* content with the counter 1 and no version
C28_Witness ==
    /\ EntrySet = {1, 2}
    /\ Numbers(1) = {1, 2, 3}
    /\ entries[1].current_version = 4
    /\ entries[2].content = entries[1].content
    /\ entries[2].content # <<>>
    /\ entries[2].current_version = 1
    /\ Numbers(2) = {}

\* C29: action_restore_version on an entry with a version of another
\* entry leaves the entries and the versions as they are (content, counts
\* and counter of the entry, no version added) and returns True.
C29_ForeignRestoreChangesNothing ==
    [][\A e \in EntryIds, v \in versions :
         (v.entry_id # e /\ RestoreVersionCall(e, v.id)) =>
            /\ entries' = entries
            /\ versions' = versions
            /\ result'.value = TRUE]_vars

\* a restore called on an entry with content, with a version of another
\* entry and of another content, has returned
C29_Witness ==
    /\ result.query = "restore"
    /\ result.value = TRUE
    /\ entries[result.entry].content # <<>>
    /\ \E v \in versions :
         /\ v.id = result.version
         /\ v.entry_id # result.entry
         /\ v.content # entries[result.entry].content
         /\ v.char_count # entries[result.entry].char_count

\* the term occurs in one of the title, the content, a tag name, the
\* notebook name and the search text of entry e
TermMatches(e, term) ==
    \/ ilike(entries[e].name, term)
    \/ ilike(entries[e].content, term)
    \/ \E t \in entries[e].tag_ids : ilike(tag_name(t), term)
    \/ ilike(notebook_name(entries[e].notebook_id), term)
    \/ ilike(_compute_search_vector(entries, e), term)

\* C30: a name search with a non-empty search string returns only entries
\* that satisfy every condition of args and that match every term of the
\* search string longer than 2 characters in one of the five texts.
C30_NameSearchFilters ==
    (result.query = "name_search" /\ result.name # <<>>) =>
       \A e \in result.value :
          /\ \A i \in DOMAIN result.args : leaf(entries, e, result.args[i])
          /\ LET search_terms == split(Strip(result.name), 1, <<>>)
             IN  \A k \in DOMAIN search_terms :
                    Len(search_terms[k]) > 2 => TermMatches(e, search_terms[k])

====
